---- MODULE Spec2Model ----
(***************************************************************************)
(* The audio engine of src/src/App.tsx as a state machine: the AudioStore  *)
(* (chord voice, sequencer transport), the React slider state that the     *)
(* handlers close over, the host's timer queue and the audio clock.        *)
(*                                                                         *)
(* Time is counted in ticks of 1/240000 s, so that (60/bpm)/4, the swing   *)
(* offset (groove/100)*0.12*stepDur and every literal delay of the source  *)
(* are whole numbers for the tempos of Bpms and every groove 0..100.       *)
(* Arithmetic is exact; the rounding of IEEE doubles is not modelled.      *)
(*                                                                         *)
(* Beside it, each with a specification of its own: the visual bus         *)
(* (visualBus.ts) with the handlers of ParticleSea and HardwarePads3D, the *)
(* impact list of ParticleSea, FpsMonitor (perf.ts), the pointer handlers  *)
(* of the chord buttons, and the gain automation of one chord voice.       *)
(*                                                                         *)
(* Further specifications follow one part of the program each: a whole run *)
(* of the sequencer with late timers (SpecRun), the unmount of App         *)
(* (SpecUnmount), the pads' targets (SpecPads), and of ParticleSea the     *)
(* idle rain (SpecRain), the palette blend (SpecPalette) and the quality   *)
(* steps (SpecQuality); of HardwarePads3D the mesh scale (SpecMesh); and   *)
(* the animation loops and teardown of both reactors (SpecTeardown).       *)
(***************************************************************************)
EXTENDS Integers, Sequences, FiniteSets, TLC

----------------------------------------------------------------------------
(* Bounds of the model.                                                    *)

\* the audio clock advances in steps of ClockStep, up to MaxClockSteps of them
MaxClockSteps == 8
\* chord voices created in one run
MaxVoices == 3
\* chord pads that are pressed in a run (a prefix of CHORDS)
NumPads == 2
\* sequencer steps followed in the pattern specification (one bar and a step)
PatternSteps == 17
\* the clock of the voice specification advances MaxVoiceSteps times
MaxVoiceSteps == 14
\* calls of stop() on one voice
MaxStops == 2
\* impacts made in a run of the bus specification
MaxEmits == 3
\* impacts made in a run of the reactor specification (more than IMPACT_LIMIT)
MaxImpacts == 9
\* the clock of the run specification advances MaxRunClock times (past one bar
\* of 16 steps at 160 bpm)
MaxRunClock == 72
\* a timer callback runs at most MaxLate clock steps after it is due
MaxLate == 3
\* impacts made in a run of the rain specification
MaxRainImpacts == 2
\* frames of HardwarePads3D in a run of the mesh specification
MaxPadFrames == 6
\* page time the rain specification runs to, ms
MaxRainTime == 3000

----------------------------------------------------------------------------
(* Units and the literals of the source.                                   *)

TicksPerSecond == 500 * 480

\* n milliseconds in ticks
Ms(n) == (n * TicksPerSecond) \div 1000

\* granularity at which the model samples the audio clock
ClockStep == Ms(25)

\* const scheduleAhead = 0.15
ScheduleAhead == Ms(150)
\* window.setTimeout(scheduleBeat, 25)
TimerDelay == Ms(25)
\* store.nextStepTime = store.audioCtx.currentTime + 0.05
StartOffset == Ms(50)

\* const stepDur = (60 / bpm) / 4
StepDur(b) == (60 * TicksPerSecond) \div (b * 4)

\* the chord pads, in the order of the source
CHORDS ==
  << [name |-> "C", label |-> "Happy", notes |-> <<60, 64, 67, 72>>],
     [name |-> "G", label |-> "Bright", notes |-> <<55, 59, 62, 67>>],
     [name |-> "Am", label |-> "Dreamy", notes |-> <<57, 60, 64, 69>>],
     [name |-> "F", label |-> "Warm", notes |-> <<53, 57, 60, 65>>],
     [name |-> "Dm", label |-> "Soft", notes |-> <<50, 53, 57, 62>>],
     [name |-> "Em", label |-> "Cool", notes |-> <<52, 55, 59, 64>>],
     [name |-> "G/B", label |-> "Lift", notes |-> <<59, 62, 67, 71>>],
     [name |-> "C/E", label |-> "Glow", notes |-> <<52, 55, 60, 64>>] >>

\* the pads the model presses
Pads == { CHORDS[i] : i \in 1..NumPads }

\* null of currentChordName / activeChord, of currentChordVoice, of schedulerTimer
NoChord == "null"
NoVoice == 0
NoTimer == 0
\* a field an event does not carry
Absent == "absent"
\* the last handler called neither startBeat() nor stopAll()
NoStoreCall == -1

\* slider values the handlers draw from: the tempo slider (min 80, max 160),
\* the groove slider and the density slider (0..100)
Bpms == {80, 120, 160}
Grooves == {0, 1, 60, 100}
Densities == 0..100
\* positions of the groove slider in the rain specification
RainGrooves == {60, 100}
\* positions of the magic slider
Magics == {10, 100}
\* positions of the density slider in the quality specification
QualityDensities == {0, 25, 100}
\* ms between two frames of the palette specification
PaletteDeltas == {200, 1000}
\* ms between two frames of the rain specification
RainDeltas == {400, 800}
\* page times ParticleSea is mounted at, ms
MountTimes == {200, 2600}

----------------------------------------------------------------------------
VARIABLES
  \* AudioStore
  audioCtx,            \* TRUE once the AudioContext was created (else null)
  currentChordVoice,   \* index into voices, or NoVoice
  currentChordName,    \* chord name, or NoChord
  beatRunning,
  schedulerTimer,      \* id of the timer armed last, or NoTimer
  nextStepTime,
  stepIndex,
  \* React state of App
  bpm, groove, density, activeChord,
  \* host
  hasAudioContextClass, \* window.AudioContext || webkitAudioContext exists
  clock,               \* audioCtx.currentTime
  timers,              \* pending setTimeout callbacks, each with the closure it runs
  voices,              \* every chord voice created so far
  \* what the last handler did
  lastOp,              \* name of the last handler
  scheduled,           \* steps its scheduleBeat pass handed to the drum generators
  events,              \* visual events it emitted, in order
  emittedBeforeStore,  \* how many of them before it called startBeat() or
                       \* stopAll(), NoStoreCall if it called neither
  \* visualBus
  subscribers,         \* the Set of handlers, in insertion order
  unsubscribes,        \* handlers for which subscribeVisual returned a closure
  calls,               \* how often the last emitVisual invoked each handler
  \* ParticleSea
  impacts,             \* the impact list, index 1 the newest
  impactCount,         \* number of addImpact calls so far
  impactData,          \* the uniform slots as the frame that just ran wrote them, else <<>>
  \* HardwarePads3D
  padTarget,           \* target intensity of each pad mesh
  padBase,             \* baseColor of each pad mesh: its chord colour or the boosted one
  \* FpsMonitor
  perf,                \* its fields accum, frames, lowStreak, highStreak
  perfAction,          \* what getAction() returned in the frame that just ran
  windowClosed,        \* <<frames, accum>> of the window the last tick closed, or <<>>
  runClass,            \* history: class of the windows closed last
  runLen,              \* history: how many of them in a row, counted anew
                       \* after the second low and after the fourth high one
  everOutOfBand,       \* history: some window closed below 45 or above 58
  \* the chord buttons
  noteOpen,            \* history: per pad, a NOTE_ON not yet followed by a NOTE_OFF
  \* one chord voice (the object createChordVoice returns)
  voiceTime,           \* audioCtx.currentTime since the voice was created
  gainEvents,          \* automation events of voiceGain.gain, by time
  gainNow,             \* voiceGain.gain.value
  oscStopAt,           \* the stop time the oscillators have, if any
  oscEnded,            \* the oscillators have stopped
  stopTimes,           \* history: the times stop() was called at
  voiceRaised,         \* a call made by stop() threw
  \* the sequencer's run
  startedAt,           \* history: the audio clock when startBeat last started it
  stepsDone,           \* history: steps handed to the drum generators since then
  \* the App component
  appMounted,          \* App is mounted (its buttons and sliders exist)
  listening,           \* its blur and visibilitychange listeners are registered
  \* ParticleSea (enhanced variant): what its rain reads
  lastTime,            \* ms, performance.now() at mount, then the frame's now
  lastRain,            \* ms, now of the frame that last added a rain impact
  lastNoteAt,          \* ms, performance.now() at the last NOTE_ON
  energy,              \* in units of 0.0001
  uGroove,             \* uniforms.uGroove.value, in units of 0.0001
  uSparkle,            \* uniforms.uSparkle.value, in units of 0.0001
  noteSeen,            \* history: a NOTE_ON was received
  \* ParticleSea (enhanced variant): its palette, colours <<r, g, b>> in
  \* units of 0.0001
  paletteA,            \* the colour a blend starts from
  targetPalette,       \* the colour it goes to
  paletteBlend,        \* how far it is, in units of 0.0001
  uColorA,             \* uniforms.uColorA.value, the base colour drawn
  frameDelta,          \* ms the frame that just ran took as elapsed, 0 if none ran
  \* ParticleSea (enhanced variant): its quality
  maxCount,            \* particles built, gridSize * gridSize
  activeCount,         \* particles to draw
  dprMax,              \* qualityRef.current.dprMax, in units of 0.05
  drawRange,           \* count of geometry.setDrawRange(0, count)
  \* HardwarePads3D: its pad meshes
  padIntensity,        \* intensity of each pad mesh, in units of 0.0001
  padRect,             \* the rectangle updateLayout last read for each pad, px
  meshScale,           \* mesh.scale of each pad, x in px, y in units of 0.01 px
  padFrames,           \* history: frames run so far
  \* the two reactors' animation loops and teardown, each per reactor
  rafPending,          \* ids of its requestAnimationFrame requests not yet run or cancelled
  rafHandle,           \* animationFrame / rafRef.current, the id of its last request
  released,            \* its renderer, materials and geometry are disposed
  disposeSaw,          \* history: what was pending and subscribed when dispose began
  ranReleased          \* history: its frame callback or handler ran after the dispose

storeVars == <<audioCtx, currentChordVoice, currentChordName, beatRunning,
               schedulerTimer, nextStepTime, stepIndex>>
reactVars == <<bpm, groove, density, activeChord>>
hostVars == <<hasAudioContextClass, clock, timers, voices>>
obsVars == <<lastOp, scheduled, events, emittedBeforeStore>>
appVars == <<storeVars, reactVars, hostVars, obsVars>>
busVars == <<subscribers, unsubscribes, calls>>
seaVars == <<impacts, impactCount, impactData>>
padsVars == <<padTarget, padBase>>
visualVars == <<busVars, seaVars, padsVars>>
perfVars == <<perf, perfAction, windowClosed, runClass, runLen, everOutOfBand>>
pointerVars == <<noteOpen>>
voiceVars == <<voiceTime, gainEvents, gainNow, oscStopAt, oscEnded, stopTimes,
               voiceRaised>>
runVars == <<startedAt, stepsDone>>
lifeVars == <<appMounted, listening>>
rainVars == <<lastTime, lastRain, lastNoteAt, energy, uGroove, uSparkle, noteSeen>>
paletteVars == <<paletteA, targetPalette, paletteBlend, uColorA, frameDelta>>
qualityVars == <<maxCount, activeCount, dprMax, drawRange>>
meshVars == <<padIntensity, padRect, meshScale, padFrames>>
reactorVars == <<rafPending, rafHandle, released, disposeSaw, ranReleased>>
moreVars == <<runVars, lifeVars, rainVars, paletteVars, qualityVars, meshVars,
              reactorVars>>
nonAppVars == <<visualVars, perfVars, pointerVars, voiceVars, moreVars>>
nonVisualVars == <<appVars, perfVars, pointerVars, voiceVars, moreVars>>
nonPerfVars == <<appVars, visualVars, pointerVars, voiceVars, moreVars>>
nonPointerVars == <<visualVars, perfVars, voiceVars, moreVars>>
nonVoiceVars == <<appVars, visualVars, perfVars, pointerVars, moreVars>>
nonPadsVars == <<perfVars, voiceVars, moreVars>>
nonRunVars == <<visualVars, perfVars, pointerVars, voiceVars, lifeVars, rainVars,
               paletteVars, qualityVars,
    meshVars, reactorVars>>
vars == <<appVars, nonAppVars>>

----------------------------------------------------------------------------
(* The drum pattern of one step (scheduleBeat's loop body).  density and   *)
(* groove are slider integers; density / 100 > 0.25 is density > 25, the   *)
(* division by 100 being correctly rounded.                                *)

\* KickOn with the threshold compared by >=
KickOnInclusive(step, d) == step = 0 \/ (d >= 25 /\ step = 8)

\* step === 0 || (kickOn1 && step === 8), kickOn1 = density / 100 > 0.25
KickOn(step, d) == step = 0 \/ (d > 25 /\ step = 8)

\* step === 4 || step === 12
SnareOn(step) == step = 4 \/ step = 12

\* ExtraSnareOn with the threshold compared by >=
ExtraSnareOnInclusive(step, d) == d >= 80 /\ step = 14

\* density / 100 > 0.8 && step === 14
ExtraSnareOn(step, d) == d > 80 /\ step = 14

\* HatOn with the two tests joined by !== (one or the other, not both)
HatOnEitherOr(step, d) == (step % 2 = 0) # (d > 35)

\* HatOn with the threshold compared by >=
HatOnInclusive(step, d) == step % 2 = 0 \/ d >= 35

\* step % 2 === 0 || density / 100 > 0.35
HatOn(step, d) == step % 2 = 0 \/ d > 35

\* ExtraHatOn with beat taken as the quarter-note beat of the bar
ExtraHatOnBeatOfBar(step, d) == d > 70 /\ (step \div 4) = 3

\* density / 100 > 0.7 && beat === 3, beat = step % 4
ExtraHatOn(step, d) == d > 70 /\ (step % 4) = 3

\* const hatLen = density / 100 > 0.6 ? 0.14 : 0.08
HatLen(d) == IF d > 60 THEN Ms(140) ELSE Ms(80)

\* SwingOffset given to every step, not only the odd ones
SwingOffsetEveryStep(step, g, b) == (g * 12 * StepDur(b)) \div 10000

\* swingAmount = 0.5 + (groove / 100) * 0.12
\* swingOffset = step % 2 === 1 ? (swingAmount - 0.5) * stepDur : 0
SwingOffset(step, g, b) ==
  IF step % 2 = 1 THEN (g * 12 * StepDur(b)) \div 10000 ELSE 0

\* the calls of playKick / playSnare / playHat for one step at `time`,
\* under the closure c = [bpm, groove, density]
StepHits(step, time, c) ==
  LET swing == SwingOffset(step, c.groove, c.bpm) IN
    (IF KickOn(step, c.density)
       THEN {[drum |-> "kick", extra |-> FALSE, time |-> time, len |-> 0]}
       ELSE {})
    \cup
    (IF SnareOn(step)
       THEN {[drum |-> "snare", extra |-> FALSE, time |-> time, len |-> 0]}
       ELSE {})
    \cup
    (IF HatOn(step, c.density)
       THEN {[drum |-> "hat", extra |-> FALSE, time |-> time + swing,
              len |-> HatLen(c.density)]}
       ELSE {})
    \cup
    (IF ExtraHatOn(step, c.density)
       THEN {[drum |-> "hat", extra |-> TRUE,
              time |-> time + swing + (StepDur(c.bpm) \div 2), len |-> Ms(50)]}
       ELSE {})
    \cup
    (IF ExtraSnareOn(step, c.density)
       THEN {[drum |-> "snare", extra |-> TRUE, time |-> time + Ms(10), len |-> 0]}
       ELSE {})

\* while (store.nextStepTime < store.audioCtx.currentTime + scheduleAhead) { ... }
RECURSIVE ScheduleLoop(_, _, _, _)
ScheduleLoop(nst, idx, now, c) ==
  IF nst < now + ScheduleAhead
    THEN LET step == idx % 16
             rest == ScheduleLoop(nst + StepDur(c.bpm), idx + 1, now, c)
         IN [steps |-> <<[step |-> step, time |-> nst, swing |-> SwingOffset(step, c.groove, c.bpm),
                          hits |-> StepHits(step, nst, c)]>>
                       \o rest.steps,
             nextStepTime |-> rest.nextStepTime,
             stepIndex |-> rest.stepIndex]
    ELSE [steps |-> <<>>, nextStepTime |-> nst, stepIndex |-> idx]

\* the closure of the current render: the handlers created by it see these values
Closure == [bpm |-> bpm, groove |-> groove, density |-> density]

\* window.setTimeout returns an id that no pending timer has (the handle stored in
\* schedulerTimer is overwritten by the new id, so an id of a timer that ran may
\* be used again: the ids are the host's up to renaming)
FreshTimerId(ts) ==
  LET used == {t.id : t \in ts}
  IN  CHOOSE n \in 1..(Cardinality(used) + 1) : n \notin used

\* store.schedulerTimer = window.setTimeout(scheduleBeat, 25): the callback is the
\* scheduleBeat of the render whose closure is c
ArmTimer(ts, c) ==
  ts \cup {[id |-> FreshTimerId(ts), due |-> clock + TimerDelay, bpm |-> c.bpm,
            groove |-> c.groove, density |-> c.density]}

----------------------------------------------------------------------------
(* Chord voices.  A voice is what createChordVoice returns: the model      *)
(* keeps how often stop() was called on it.                                *)

\* createChordVoice(chordName): null without an audio context (masterBus is set
\* together with audioCtx by setupAudioChain), else a new voice
CreateChordVoice(vs, ctx, name) ==
  IF ~ctx
    THEN [voices |-> vs, voice |-> NoVoice]
    ELSE [voices |-> Append(vs, [stops |-> 0]),
          voice |-> Len(vs) + 1]

\* StopCurrent that drops the voice without calling stop()
StopCurrentLeak(vs, v, release) == vs

\* if (store.currentChordVoice) store.currentChordVoice.stop(release)
StopCurrent(vs, v, release) ==
  IF v = NoVoice
    THEN vs
    ELSE [vs EXCEPT ![v] = [@ EXCEPT !.stops = @ + 1]]

----------------------------------------------------------------------------
(* ensureAudio, startBeat, scheduleBeat, stopBeat.                         *)

\* ensureAudio() constructing a context whatever the host offers
EnsureAudioAlways == TRUE

\* ensureAudio(): the value of store.audioCtx (non-null or not) when it returns
EnsureAudio == audioCtx \/ hasAudioContextClass

\* StartBeatSkips without the beatRunning test
StartBeatSkipsNoRunningTest(running, ctx) == ~ctx

\* if (store.beatRunning || !store.audioCtx) return
StartBeatSkips(running, ctx) == running \/ ~ctx

\* startBeat() going on from the step the sequencer was stopped at
StartBeatResumes(ctx) ==
  IF StartBeatSkips(beatRunning, ctx)
    THEN /\ UNCHANGED <<beatRunning, nextStepTime, stepIndex, schedulerTimer, timers>>
         /\ scheduled' = <<>>
    ELSE LET r == ScheduleLoop(clock + StartOffset, stepIndex, clock, Closure) IN
         /\ beatRunning' = TRUE
         /\ nextStepTime' = r.nextStepTime
         /\ stepIndex' = r.stepIndex
         /\ scheduled' = r.steps
         /\ timers' = ArmTimer(timers, Closure)
         /\ schedulerTimer' = FreshTimerId(timers)

\* startBeat() of the current render, after ensureAudio left audioCtx = ctx;
\* scheduleBeat() runs inside it and arms the first timer
StartBeat(ctx) ==
  IF StartBeatSkips(beatRunning, ctx)
    THEN /\ UNCHANGED <<beatRunning, nextStepTime, stepIndex, schedulerTimer, timers>>
         /\ scheduled' = <<>>
    ELSE LET r == ScheduleLoop(clock + StartOffset, 0, clock, Closure) IN
         /\ beatRunning' = TRUE
         /\ nextStepTime' = r.nextStepTime
         /\ stepIndex' = r.stepIndex
         /\ scheduled' = r.steps
         /\ timers' = ArmTimer(timers, Closure)
         /\ schedulerTimer' = FreshTimerId(timers)

\* ClearTimeout that cancels nothing
ClearTimeoutKeeps(ts, id) == ts

\* window.clearTimeout(id)
ClearTimeout(ts, id) == {t \in ts : t.id # id}

\* stopBeat(): if (store.schedulerTimer) window.clearTimeout(store.schedulerTimer)
StopBeat ==
  /\ beatRunning' = FALSE
  /\ timers' = IF schedulerTimer # NoTimer THEN ClearTimeout(timers, schedulerTimer)
               ELSE timers
  /\ schedulerTimer' = NoTimer
  /\ UNCHANGED <<nextStepTime, stepIndex>>

\* stopAll() leaving the chord name and the active chord in place
StopAllKeepsChord ==
  /\ StopBeat
  /\ voices' = StopCurrent(voices, currentChordVoice, Ms(80))
  /\ currentChordVoice' = NoVoice
  /\ UNCHANGED <<currentChordName, activeChord>>

\* stopAll()
StopAll ==
  /\ StopBeat
  /\ voices' = StopCurrent(voices, currentChordVoice, Ms(80))
  /\ currentChordVoice' = NoVoice
  /\ currentChordName' = NoChord
  /\ activeChord' = NoChord

----------------------------------------------------------------------------
(* The handlers.                                                           *)

\* handleChordDown emitting CHORD_CHANGE on every press
ChordDownEventsAlways(chord, changed) ==
  <<[type |-> "CHORD_CHANGE", chordName |-> chord.name],
    [type |-> "NOTE_ON", note |-> chord.notes[1], chordId |-> chord.name]>>

\* the emitVisual calls of handleChordDown, in order
ChordDownEvents(chord, changed) ==
  (IF changed THEN <<[type |-> "CHORD_CHANGE", chordName |-> chord.name]>>
   ELSE <<>>)
  \o <<[type |-> "NOTE_ON", note |-> chord.notes[1], chordId |-> chord.name]>>

\* handleChordDown(chord, event); the velocity of NOTE_ON (from the pointer's
\* pressure) is left out of the event
HandleChordDown(chord) ==
  LET ctx == EnsureAudio
      changed == currentChordName # chord.name
      made == CreateChordVoice(StopCurrent(voices, currentChordVoice, Ms(140)),
                               ctx, chord.name)
  IN  /\ (changed /\ ctx) => Len(voices) < MaxVoices
      /\ audioCtx' = ctx
      /\ IF changed
           THEN /\ voices' = made.voices
                /\ currentChordVoice' = made.voice
                /\ currentChordName' = chord.name
                /\ activeChord' = chord.name
           ELSE UNCHANGED <<voices, currentChordVoice, currentChordName, activeChord>>
      /\ events' = ChordDownEvents(chord, changed)
      /\ StartBeat(ctx)
      /\ lastOp' = "handleChordDown"
      /\ emittedBeforeStore' = Len(events')
      /\ UNCHANGED <<bpm, groove, density, hasAudioContextClass, clock>>

\* handleChordUp(chord): pointer up, cancel or leave on the pad
HandleChordUp(chord) ==
  /\ voices' = StopCurrent(voices, currentChordVoice, Ms(160))
  /\ currentChordVoice' = NoVoice
  /\ currentChordName' = NoChord
  /\ activeChord' = NoChord
  /\ events' = <<[type |-> "NOTE_OFF", note |-> chord.notes[1]]>>
  /\ scheduled' = <<>>
  /\ lastOp' = "handleChordUp"
  /\ emittedBeforeStore' = NoStoreCall
  /\ UNCHANGED <<audioCtx, beatRunning, schedulerTimer, nextStepTime, stepIndex,
                 bpm, groove, density, hasAudioContextClass, clock, timers>>

\* handleUnlock()
HandleUnlock ==
  /\ audioCtx' = EnsureAudio
  /\ StartBeat(EnsureAudio)
  /\ events' = <<>>
  /\ lastOp' = "handleUnlock"
  /\ emittedBeforeStore' = 0
  /\ UNCHANGED <<currentChordVoice, currentChordName, voices,
                 bpm, groove, density, activeChord, hasAudioContextClass, clock>>

\* handlePanic()
HandlePanic ==
  /\ StopAll
  /\ events' = <<[type |-> "PANIC"]>>
  /\ scheduled' = <<>>
  /\ lastOp' = "handlePanic"
  /\ emittedBeforeStore' = 0
  /\ UNCHANGED <<audioCtx, bpm, groove, density, hasAudioContextClass, clock>>

\* window blur, or visibilitychange with document.hidden: stopAll()
HandleBlur ==
  /\ StopAll
  /\ events' = <<>>
  /\ scheduled' = <<>>
  /\ lastOp' = "handleBlur"
  /\ emittedBeforeStore' = 0
  /\ UNCHANGED <<audioCtx, bpm, groove, density, hasAudioContextClass, clock>>

\* tempo slider onChange: setBpm(b); the effect on [bpm] emits TEMPO_CHANGE.
\* The re-render gives the handlers a new closure; a pending timer keeps its own.
SetBpm(b) ==
  /\ b # bpm
  /\ bpm' = b
  /\ events' = <<[type |-> "TEMPO_CHANGE", bpm |-> b]>>
  /\ scheduled' = <<>>
  /\ lastOp' = "setBpm"
  /\ emittedBeforeStore' = NoStoreCall
  /\ UNCHANGED <<storeVars, groove, density, activeChord, hostVars>>

\* groove slider onChange
SetGroove(g) ==
  /\ g # groove
  /\ groove' = g
  /\ events' = <<[type |-> "GROOVE_CHANGE", amount |-> g]>>
  /\ scheduled' = <<>>
  /\ lastOp' = "setGroove"
  /\ emittedBeforeStore' = NoStoreCall
  /\ UNCHANGED <<storeVars, bpm, density, activeChord, hostVars>>

\* density slider onChange
SetDensity(d) ==
  /\ d # density
  /\ density' = d
  /\ events' = <<[type |-> "DENSITY_CHANGE", amount |-> d]>>
  /\ scheduled' = <<>>
  /\ lastOp' = "setDensity"
  /\ emittedBeforeStore' = NoStoreCall
  /\ UNCHANGED <<storeVars, bpm, groove, activeChord, hostVars>>

\* the callback of a pending timer runs, on time or late: the scheduleBeat of the
\* render that armed it, with that render's bpm, groove and density
TimerFire(t) ==
  /\ t \in timers
  /\ clock >= t.due
  /\ LET c == [bpm |-> t.bpm, groove |-> t.groove, density |-> t.density]
         left == timers \ {t}
         r == ScheduleLoop(nextStepTime, stepIndex, clock, c)
     IN  IF ~audioCtx
           THEN /\ timers' = left
                /\ scheduled' = <<>>
                /\ UNCHANGED <<nextStepTime, stepIndex, schedulerTimer>>
           ELSE /\ nextStepTime' = r.nextStepTime
                /\ stepIndex' = r.stepIndex
                /\ scheduled' = r.steps
                /\ timers' = ArmTimer(left, c)
                /\ schedulerTimer' = FreshTimerId(left)
  /\ events' = <<>>
  /\ lastOp' = "timer"
  /\ emittedBeforeStore' = NoStoreCall
  /\ UNCHANGED <<audioCtx, currentChordVoice, currentChordName, beatRunning,
                 reactVars, hasAudioContextClass, clock, voices>>

\* the audio clock advances
Advance ==
  /\ clock' = clock + ClockStep
  /\ events' = <<>>
  /\ scheduled' = <<>>
  /\ lastOp' = "tick"
  /\ emittedBeforeStore' = NoStoreCall
  /\ UNCHANGED <<storeVars, reactVars, hasAudioContextClass, timers, voices>>

Tick ==
  /\ clock < MaxClockSteps * ClockStep
  /\ Advance

----------------------------------------------------------------------------
(* The visual bus (visualBus.ts) and its two subscribers: the handler of   *)
(* ParticleSea ("sea") and the handler of HardwarePads3D ("pads").  A      *)
(* JavaScript Set iterates in insertion order, so the registry is a        *)
(* sequence without repetitions.                                           *)

Handlers == {"sea", "pads"}

NoCalls == [h \in Handlers |-> 0]

\* Set.prototype.add: a value already present is not inserted again
SetAdd(set, h) ==
  IF \E i \in DOMAIN set : set[i] = h THEN set ELSE Append(set, h)

\* Set.prototype.delete emptying the set
SetDeleteClears(set, h) == <<>>

\* Set.prototype.delete
SetDelete(set, h) == SelectSeq(set, LAMBDA x : x # h)

\* ParticleSea.tsx: const IMPACT_LIMIT = 8
IMPACT_LIMIT == 8

\* An impact is kept as the call site that made it and the number of the
\* addImpact call.  The call site fixes strength and radius (0.6 and 6 for
\* NOTE_OFF, 2.2 and 18 for PANIC, 0.5 and 5 for rain, from the velocity for
\* NOTE_ON); the position on the surface is not modelled.
Impact(from, n) == [from |-> from, nth |-> n]

\* impactData[i].set(0, 0, -9999, 0), impactParams[i].set(1, 1, 1, 0)
InertImpact == [from |-> "none", nth |-> 0]

\* addImpact without the pop
AddImpactUnbounded(list, from, n) == <<Impact(from, n)>> \o list

\* addImpact: unshift, then pop when the list is longer than IMPACT_LIMIT
AddImpact(list, from, n) ==
  LET grown == <<Impact(from, n)>> \o list
  IN  IF Len(grown) > IMPACT_LIMIT
        THEN SubSeq(grown, 1, Len(grown) - 1)
        ELSE grown

\* updateImpactUniforms: slot i of the uniform arrays gets entry i
UpdateImpactUniforms(list) ==
  [i \in 1..IMPACT_LIMIT |-> IF i <= Len(list) THEN list[i] ELSE InertImpact]

\* the handler of ParticleSea leaving its work for later
SeaHandleDeferred(st, event) == st

\* the handler ParticleSea subscribes: the impacts it adds.  The palette,
\* energy and wave uniforms it also sets are not part of this model.
SeaHandle(st, event) ==
  IF event.type \in {"NOTE_ON", "NOTE_OFF", "PANIC"}
    THEN [st EXCEPT !.impacts = AddImpact(@, event.type, st.impactCount + 1),
                    !.impactCount = @ + 1]
    ELSE st

\* HardwarePads3D.tsx: const PAD_COLORS
PAD_COLORS == <<"C", "G", "Am", "F", "Dm", "Em", "G/B", "C/E">>

\* the id of a pad mesh: element.textContent.trim().split(/\s+/)[0] of its
\* .chord-btn, whose text is the name span followed by the label span with
\* no white space between them
PadId(chord) == chord.name \o chord.label

PadIds == {PadId(CHORDS[i]) : i \in DOMAIN CHORDS}

\* event.chordId ? pads.find(id = chordId)
\*               : pads.find(id = PAD_COLORS[event.note % pads.length])
TargetPad(event) ==
  IF "chordId" \in DOMAIN event
    THEN event.chordId
    ELSE PAD_COLORS[(event.note % Len(CHORDS)) + 1]

\* chordToColor(pad.id), and mixColors(base, [1, 1, 1], 0.35) of it
BaseColor == "base"
BoostedColor == "boosted"

\* the handler HardwarePads3D subscribes: the pad it finds gets target
\* Math.max(target, 1) and the boosted colour on NOTE_ON, target 0 and its
\* chord colour on NOTE_OFF; when find() returns undefined nothing is set
PadsHandle(st, event) ==
  IF event.type \in {"NOTE_ON", "NOTE_OFF"} /\ TargetPad(event) \in PadIds
    THEN [st EXCEPT !.padTarget[TargetPad(event)] =
                       IF event.type = "NOTE_ON" THEN 1 ELSE 0,
                    !.padBase[TargetPad(event)] =
                       IF event.type = "NOTE_ON" THEN BoostedColor ELSE BaseColor]
    ELSE st

\* handler(event) for one registered handler
Invoke(h, st, event) ==
  LET done == IF h = "sea" THEN SeaHandle(st, event) ELSE PadsHandle(st, event)
  IN  [done EXCEPT !.calls[h] = @ + 1]

\* subscribers.forEach((handler) => handler(event)), from position i on
RECURSIVE ForEach(_, _, _, _)
ForEach(subs, i, st, event) ==
  IF i > Len(subs) THEN st
  ELSE ForEach(subs, i + 1, Invoke(subs[i], st, event), event)

\* emitVisual(event): every handler has run when the call returns
EmitVisual(event) ==
  LET st == ForEach(subscribers, 1,
                    [impacts |-> impacts, impactCount |-> impactCount,
                     padTarget |-> padTarget, padBase |-> padBase,
                     calls |-> NoCalls], event)
  IN  /\ impacts' = st.impacts
      /\ impactCount' = st.impactCount
      /\ padTarget' = st.padTarget
      /\ padBase' = st.padBase
      /\ calls' = st.calls
      /\ impactData' = <<>>
      /\ UNCHANGED <<subscribers, unsubscribes>>

\* subscribeVisual(handler)
SubscribeVisual(h) ==
  /\ subscribers' = SetAdd(subscribers, h)
  /\ unsubscribes' = unsubscribes \cup {h}
  /\ calls' = NoCalls
  /\ impactData' = <<>>
  /\ UNCHANGED <<impacts, impactCount, padsVars>>

\* the closure subscribeVisual(h) returned, called
Unsubscribe(h) ==
  /\ h \in unsubscribes
  /\ subscribers' = SetDelete(subscribers, h)
  /\ calls' = NoCalls
  /\ impactData' = <<>>
  /\ UNCHANGED <<unsubscribes, impacts, impactCount, padsVars>>

\* animate(now) of ParticleSea: updateImpactUniforms(), then the rain impact
\* when its condition holds (rain), then the render
Animate(rain) ==
  /\ impactData' = UpdateImpactUniforms(impacts)
  /\ IF rain
       THEN /\ impacts' = AddImpact(impacts, "rain", impactCount + 1)
            /\ impactCount' = impactCount + 1
       ELSE UNCHANGED <<impacts, impactCount>>
  /\ calls' = NoCalls
  /\ UNCHANGED <<subscribers, unsubscribes, padsVars>>

\* the events App emits for the pressed pads
VisualEvents ==
  {[type |-> "CHORD_CHANGE", chordName |-> c.name] : c \in Pads}
  \cup {[type |-> "NOTE_ON", note |-> c.notes[1], chordId |-> c.name] : c \in Pads}
  \cup {[type |-> "NOTE_OFF", note |-> c.notes[1]] : c \in Pads}
  \cup {[type |-> "PANIC"]}

\* the bus at module load, the reactors before any event
InitVisual ==
  /\ subscribers = <<>>
  /\ unsubscribes = {}
  /\ calls = NoCalls
  /\ impacts = <<>>
  /\ impactCount = 0
  /\ impactData = <<>>
  /\ padTarget = [p \in PadIds |-> 0]
  /\ padBase = [p \in PadIds |-> BaseColor]

----------------------------------------------------------------------------
(* FpsMonitor (perf.ts).  tick(now) is given delta = now - lastTime, in    *)
(* ms.  avgFps = frames / accum * 1000 is compared as a fraction; it is    *)
(* read only by the tick that computes it (the fps getter has no caller),  *)
(* so it is not kept in the state.                                         *)

\* frame times of 100, 50 and 25 frames per second
Deltas == {10, 20, 40}

\* the branch tick takes for avgFps = frames / accum * 1000
WindowClass(frames, accum) ==
  IF frames * 1000 < 45 * accum THEN "low"
  ELSE IF frames * 1000 > 58 * accum THEN "high"
  ELSE "band"

\* the streak updates of tick with a high window leaving lowStreak alone
StreaksAfterKeepsLow(m, class) ==
  IF class = "low"
    THEN [m EXCEPT !.lowStreak = @ + 1, !.highStreak = 0]
  ELSE IF class = "high"
    THEN [m EXCEPT !.highStreak = @ + 1]
  ELSE [m EXCEPT !.lowStreak = 0, !.highStreak = 0]

\* the streak updates of tick when a window closes
StreaksAfter(m, class) ==
  IF class = "low"
    THEN [m EXCEPT !.lowStreak = @ + 1, !.highStreak = 0]
  ELSE IF class = "high"
    THEN [m EXCEPT !.highStreak = @ + 1, !.lowStreak = 0]
  ELSE [m EXCEPT !.lowStreak = 0, !.highStreak = 0]

\* tick(now): the monitor after the tick and the window it closed, as
\* <<frames, accum>> (<<>> while accum < 1000)
FpsTick(m, delta) ==
  LET accum == m.accum + delta
      frames == m.frames + 1
  IN  IF accum >= 1000
        THEN [monitor |-> StreaksAfter([m EXCEPT !.accum = 0, !.frames = 0],
                                       WindowClass(frames, accum)),
              window |-> <<frames, accum>>]
        ELSE [monitor |-> [m EXCEPT !.accum = accum, !.frames = frames],
              window |-> <<>>]

\* getAction() returning 'decrease' without clearing lowStreak
GetActionKeepsStreak(m) ==
  IF m.lowStreak >= 2
    THEN [monitor |-> m, action |-> "decrease"]
  ELSE IF m.highStreak >= 4
    THEN [monitor |-> [m EXCEPT !.highStreak = 0], action |-> "increase"]
  ELSE [monitor |-> m, action |-> "hold"]

\* getAction(): the monitor after the call and the action returned
GetAction(m) ==
  IF m.lowStreak >= 2
    THEN [monitor |-> [m EXCEPT !.lowStreak = 0], action |-> "decrease"]
  ELSE IF m.highStreak >= 4
    THEN [monitor |-> [m EXCEPT !.highStreak = 0], action |-> "increase"]
  ELSE [monitor |-> m, action |-> "hold"]

\* history: the average FPS of window w = <<frames, accum>> against 45 and 58
Below45(w) == w[1] * 1000 < 45 * w[2]

Above58(w) == w[1] * 1000 > 58 * w[2]

\* history: the run of closed windows after one more, w
RunAfter(w) ==
  LET class == IF Below45(w) THEN "low" ELSE IF Above58(w) THEN "high" ELSE "band"
  IN  IF class = "band" THEN [class |-> "band", len |-> 0]
      ELSE IF /\ class = runClass
              /\ ~(class = "low" /\ runLen = 2)
              /\ ~(class = "high" /\ runLen = 4)
        THEN [class |-> class, len |-> runLen + 1]
      ELSE [class |-> class, len |-> 1]

\* one frame of animate: perf.tick(now), then perf.getAction()
PerfFrame(delta) ==
  LET ticked == FpsTick(perf, delta)
      got == GetAction(ticked.monitor)
  IN  /\ perf' = got.monitor
      /\ perfAction' = got.action
      /\ windowClosed' = ticked.window
      /\ IF ticked.window = <<>>
           THEN UNCHANGED <<runClass, runLen, everOutOfBand>>
           ELSE /\ runClass' = RunAfter(ticked.window).class
                /\ runLen' = RunAfter(ticked.window).len
                /\ everOutOfBand' = (\/ everOutOfBand
                                     \/ Below45(ticked.window)
                                     \/ Above58(ticked.window))

\* new FpsMonitor()
InitPerf ==
  /\ perf = [accum |-> 0, frames |-> 0, lowStreak |-> 0, highStreak |-> 0]
  /\ perfAction = "hold"
  /\ windowClosed = <<>>
  /\ runClass = "none"
  /\ runLen = 0
  /\ everOutOfBand = FALSE

----------------------------------------------------------------------------
\* createAudioStore() and the useState defaults of App
InitApp ==
  /\ audioCtx = FALSE
  /\ currentChordVoice = NoVoice
  /\ currentChordName = NoChord
  /\ beatRunning = FALSE
  /\ schedulerTimer = NoTimer
  /\ nextStepTime = 0
  /\ stepIndex = 0
  /\ bpm = 120
  /\ groove = 60
  /\ density = 25
  /\ activeChord = NoChord
  /\ hasAudioContextClass \in BOOLEAN
  /\ clock = 0
  /\ timers = {}
  /\ voices = <<>>
  /\ lastOp = "init"
  /\ scheduled = <<>>
  /\ events = <<>>
  /\ emittedBeforeStore = NoStoreCall

----------------------------------------------------------------------------
(* One chord voice: the automation of voiceGain.gain and the stop time of  *)
(* its oscillators.  Gain values are in units of 0.0001.  An automation    *)
(* event is its kind ("set", "linear", "exp"), its value and its time; the *)
(* list is kept in order of time, as the AudioParam keeps it.              *)

\* voiceGain.gain.setValueAtTime(0.0001, now) and the floor of stop()
GainFloor == 1
\* voiceGain.gain.linearRampToValueAtTime(0.5, now + 0.04)
GainPeak == 5000
\* the value of a GainNode's gain before any automation runs
GainDefault == 10000

AttackTime == Ms(40)

\* the oscillators stop 0.05 s after the release
OscStopDelay == Ms(50)

\* the audio clock of the voice specification advances by VoiceStep
VoiceStep == Ms(20)

\* stop(0.08) of stopAll, stop(0.14) of handleChordDown, stop(0.16) of
\* handleChordUp and the default
Releases == {Ms(80), Ms(140), Ms(160)}

\* each oscillator of the voice had start() called by createChordVoice
OscStarted == TRUE

\* cancelScheduledValues that removes nothing
CancelScheduledValuesKeeps(evs, t) == evs

\* AudioParam.cancelScheduledValues(t): the events at or after t go
CancelScheduledValues(evs, t) == SelectSeq(evs, LAMBDA e : e.time < t)

\* setValueAtTime / linearRampToValueAtTime / exponentialRampToValueAtTime:
\* the event is inserted after the events that are not later than it
ScheduleEvent(evs, e) ==
  SelectSeq(evs, LAMBDA x : x.time <= e.time)
    \o <<e>> \o SelectSeq(evs, LAMBDA x : x.time > e.time)

\* The value inside an exponential ramp from v0 to v1 is v0 * (v1/v0)^f, not
\* a rational: any of the sampled values between the ends that keeps the
\* ramp monotone from cur, the value read last.
ExpBetween(v0, v1, cur) ==
  LET samples == {v0, (v0 + v1) \div 2, v1}
  IN  IF v1 <= v0 THEN {x \in samples : x <= cur}
      ELSE {x \in samples : x >= cur}

\* the values the AudioParam can have at time t, cur being its value so far
ValuesAt(evs, t, cur) ==
  LET past == SelectSeq(evs, LAMBDA e : e.time <= t)
      future == SelectSeq(evs, LAMBDA e : e.time > t)
  IN  IF past = <<>> THEN {cur}
      ELSE LET prev == past[Len(past)] IN
        IF future = <<>> \/ prev.time = t THEN {prev.value}
        ELSE LET next == future[1] IN
          IF next.kind = "set" THEN {prev.value}
          ELSE IF next.kind = "linear"
            THEN {prev.value + ((next.value - prev.value) * (t - prev.time))
                                 \div (next.time - prev.time)}
          ELSE ExpBetween(prev.value, next.value, cur)

\* whether a call of stop(release) at time t throws: OscillatorNode.stop on
\* a node never started, a ramp to 0 or a negative time
StopRaises(t, release) == ~OscStarted \/ GainFloor <= 0 \/ t + release < 0

\* voice.stop(release)
VoiceStop(release) ==
  LET t == voiceTime
      cancelled == CancelScheduledValues(gainEvents, t)
      pinned == ScheduleEvent(cancelled,
                  [kind |-> "set",
                   value |-> IF gainNow > GainFloor THEN gainNow ELSE GainFloor,
                   time |-> t])
  IN  /\ Len(stopTimes) < MaxStops
      /\ gainEvents' = ScheduleEvent(pinned,
                         [kind |-> "exp", value |-> GainFloor, time |-> t + release])
      /\ oscStopAt' = IF oscEnded THEN oscStopAt ELSE {t + release + OscStopDelay}
      /\ stopTimes' = Append(stopTimes, t)
      /\ voiceRaised' = (voiceRaised \/ StopRaises(t, release))
      /\ UNCHANGED <<voiceTime, gainNow, oscEnded>>

\* the audio clock advances by VoiceStep: the gain follows its automation,
\* the oscillators end at their stop time
VoiceTick ==
  /\ voiceTime < MaxVoiceSteps * VoiceStep
  /\ voiceTime' = voiceTime + VoiceStep
  /\ gainNow' \in ValuesAt(gainEvents, voiceTime', gainNow)
  /\ oscEnded' = (oscEnded \/ \E s \in oscStopAt : voiceTime' >= s)
  /\ UNCHANGED <<gainEvents, oscStopAt, stopTimes, voiceRaised>>

\* the voice as createChordVoice returns it
InitVoice ==
  /\ voiceTime = 0
  /\ gainEvents = <<[kind |-> "set", value |-> GainFloor, time |-> 0],
                    [kind |-> "linear", value |-> GainPeak, time |-> AttackTime]>>
  /\ gainNow = GainDefault
  /\ oscStopAt = {}
  /\ oscEnded = FALSE
  /\ stopTimes = <<>>
  /\ voiceRaised = FALSE

\* no pad has been pressed
InitPointer == noteOpen = [c \in {p.name : p \in Pads} |-> FALSE]

\* the page after load, before the components mount
\* the sequencer has not been started
InitRun ==
  /\ startedAt = 0
  /\ stepsDone = 0

\* App after its first render and its effects
InitLife ==
  /\ appMounted = TRUE
  /\ listening = TRUE

\* the state the effect of ParticleSea sets up, mounted at page time t:
\* lastTime = performance.now(), lastRain = 0, energy = 0, lastNoteAt = 0,
\* uGroove: { value: 0.15 }, uSparkle: { value: 0.2 }
InitRain(t) ==
  /\ lastTime = t
  /\ lastRain = 0
  /\ lastNoteAt = 0
  /\ energy = 0
  /\ uGroove = 1500
  /\ uSparkle = 2000
  /\ noteSeen = FALSE

\* new THREE.Color(0.2, 0.6, 1) and new THREE.Color(0.9, 0.4, 0.9)
ColorA0 == <<2000, 6000, 10000>>
ColorB0 == <<9000, 4000, 9000>>

\* paletteA, targetPalette = paletteB.clone(), paletteBlend = 0 and the
\* uniform uColorA as the effect of ParticleSea creates them
InitPalette ==
  /\ paletteA = ColorA0
  /\ targetPalette = ColorB0
  /\ paletteBlend = 0
  /\ uColorA = ColorA0
  /\ frameDelta = 0

\* Math.floor(Math.sqrt(n))
FloorSqrt(n) == CHOOSE k \in 0..n : k * k <= n /\ (k + 1) * (k + 1) > n

\* maxTarget = isMobile() ? 18000 : 42000, maxCount = gridSize * gridSize
MaxCountOf(mobile) ==
  LET gridSize == FloorSqrt(IF mobile THEN 18000 ELSE 42000)
  IN  gridSize * gridSize

\* useRef({ activeCount: 0, dprMax: 1.5 }), then in the effect activeCount =
\* Math.floor(maxCount * 0.75) and geometry.setDrawRange(0, activeCount)
InitQuality(mobile) ==
  /\ maxCount = MaxCountOf(mobile)
  /\ activeCount = (MaxCountOf(mobile) * 75) \div 100
  /\ drawRange = (MaxCountOf(mobile) * 75) \div 100
  /\ dprMax = 30

\* the rectangles getBoundingClientRect() gives for a chord button, px: the
\* buttons are 120 px high (h-[120px]) and as wide as their grid column
NarrowRect == [width |-> 140, height |-> 120]
WideRect == [width |-> 200, height |-> 120]
PadRects == {NarrowRect, WideRect}

\* updateLayout: pad.mesh.scale.set(rect.width, rect.height, 1)
ScaleOf(rect) == [x |-> rect.width, y |-> rect.height * 100]

\* the pad meshes after the effect of HardwarePads3D built them (intensity:
\* 0) and called updateLayout() once
InitMesh(rect) ==
  /\ padIntensity = [p \in PadIds |-> 0]
  /\ padRect = [p \in PadIds |-> rect]
  /\ meshScale = [p \in PadIds |-> ScaleOf(rect)]
  /\ padFrames = 0

\* what disposeSaw holds before a teardown
NotDisposed == [pending |-> {}, subscribed |-> FALSE]

\* each reactor after its effect: the first frame is requested,
\* animationFrame = requestAnimationFrame(animate)
InitReactors ==
  /\ rafPending = [r \in Handlers |-> {1}]
  /\ rafHandle = [r \in Handlers |-> 1]
  /\ released = [r \in Handlers |-> FALSE]
  /\ disposeSaw = [r \in Handlers |-> NotDisposed]
  /\ ranReleased = [r \in Handlers |-> FALSE]

InitMore ==
  /\ InitRun /\ InitLife /\ InitRain(0) /\ InitPalette /\ InitQuality(FALSE)
  /\ InitMesh(NarrowRect) /\ InitReactors

Init == InitApp /\ InitVisual /\ InitPerf /\ InitPointer /\ InitVoice /\ InitMore

Next ==
  \/ \E chord \in Pads : HandleChordDown(chord) /\ UNCHANGED nonAppVars
  \/ \E chord \in Pads : HandleChordUp(chord) /\ UNCHANGED nonAppVars
  \/ HandleUnlock /\ UNCHANGED nonAppVars
  \/ HandlePanic /\ UNCHANGED nonAppVars
  \/ HandleBlur /\ UNCHANGED nonAppVars
  \/ \E b \in Bpms : SetBpm(b) /\ UNCHANGED nonAppVars
  \/ \E t \in timers : TimerFire(t) /\ UNCHANGED nonAppVars
  \/ Tick /\ UNCHANGED nonAppVars

Spec == Init /\ [][Next]_vars

----------------------------------------------------------------------------
(* The pattern specification: the sliders are set, the sequencer is        *)
(* started with handleUnlock and its timer callbacks run on time for one   *)
(* bar.  The sliders rest while the sequencer runs.                        *)

PatternSetBpm(b) == ~beatRunning /\ SetBpm(b)

PatternSetGroove(g) == ~beatRunning /\ SetGroove(g)

PatternSetDensity(d) == ~beatRunning /\ SetDensity(d)

PatternUnlock == ~beatRunning /\ HandleUnlock

PatternTick ==
  /\ beatRunning
  /\ stepIndex < PatternSteps
  /\ \A t \in timers : clock < t.due
  /\ Advance

PatternNext ==
  \/ \E b \in Bpms : PatternSetBpm(b) /\ UNCHANGED nonAppVars
  \/ \E g \in Grooves : PatternSetGroove(g) /\ UNCHANGED nonAppVars
  \/ \E d \in Densities : PatternSetDensity(d) /\ UNCHANGED nonAppVars
  \/ PatternUnlock /\ UNCHANGED nonAppVars
  \/ \E t \in timers : TimerFire(t) /\ UNCHANGED nonAppVars
  \/ PatternTick /\ UNCHANGED nonAppVars

SpecPattern == Init /\ [][PatternNext]_vars

----------------------------------------------------------------------------
(* The pointer specification: the four pointer handlers of the chord       *)
(* buttons, in any order and on any pad, while the sequencer runs.  A      *)
(* pointer can leave a button it never pressed, and leaves the button it   *)
(* was released on.                                                        *)

\* onPointerDown={(event) => handleChordDown(chord, event)}
PointerDown(chord) ==
  /\ HandleChordDown(chord)
  /\ noteOpen' = [noteOpen EXCEPT ![chord.name] = TRUE]
  /\ UNCHANGED nonPointerVars

\* onPointerUp={() => handleChordUp(chord)}
PointerUp(chord) ==
  /\ HandleChordUp(chord)
  /\ noteOpen' = [noteOpen EXCEPT ![chord.name] = FALSE]
  /\ UNCHANGED nonPointerVars

\* onPointerCancel={() => handleChordUp(chord)}
PointerCancel(chord) ==
  /\ HandleChordUp(chord)
  /\ noteOpen' = [noteOpen EXCEPT ![chord.name] = FALSE]
  /\ UNCHANGED nonPointerVars

\* onPointerLeave={() => handleChordUp(chord)}
PointerLeave(chord) ==
  /\ HandleChordUp(chord)
  /\ noteOpen' = [noteOpen EXCEPT ![chord.name] = FALSE]
  /\ UNCHANGED nonPointerVars

PointerNext ==
  \/ \E chord \in Pads : PointerDown(chord)
  \/ \E chord \in Pads : PointerUp(chord)
  \/ \E chord \in Pads : PointerCancel(chord)
  \/ \E chord \in Pads : PointerLeave(chord)
  \/ \E t \in timers : TimerFire(t) /\ UNCHANGED nonAppVars
  \/ Tick /\ UNCHANGED nonAppVars

SpecPointer == Init /\ [][PointerNext]_vars

----------------------------------------------------------------------------
(* The pads specification: HardwarePads3D is mounted (its effect has       *)
(* subscribed its handler), and every event a pointer handler of App emits *)
(* reaches it through emitVisual before the handler goes on.               *)

\* emitVisual(evs[i]), emitVisual(evs[i + 1]), ... in order
RECURSIVE EmitEach(_, _, _)
EmitEach(evs, i, st) ==
  IF i > Len(evs) THEN st
  ELSE EmitEach(evs, i + 1, ForEach(subscribers, 1, st, evs[i]))

\* the registered handlers run on the events the step emits
Deliver ==
  LET st == EmitEach(events', 1,
                     [impacts |-> impacts, impactCount |-> impactCount,
                      padTarget |-> padTarget, padBase |-> padBase,
                      calls |-> NoCalls])
  IN  /\ impacts' = st.impacts
      /\ impactCount' = st.impactCount
      /\ padTarget' = st.padTarget
      /\ padBase' = st.padBase
      /\ calls' = st.calls
      /\ UNCHANGED <<subscribers, unsubscribes, impactData>>

InitPads ==
  /\ InitApp
  /\ subscribers = <<"pads">>
  /\ unsubscribes = {"pads"}
  /\ calls = NoCalls
  /\ impacts = <<>>
  /\ impactCount = 0
  /\ impactData = <<>>
  /\ padTarget = [p \in PadIds |-> 0]
  /\ padBase = [p \in PadIds |-> BaseColor]
  /\ InitPerf
  /\ InitPointer
  /\ InitVoice
  /\ InitMore

PadsPointerDown(chord) ==
  /\ HandleChordDown(chord)
  /\ noteOpen' = [noteOpen EXCEPT ![chord.name] = TRUE]
  /\ Deliver
  /\ UNCHANGED nonPadsVars

PadsPointerUp(chord) ==
  /\ HandleChordUp(chord)
  /\ noteOpen' = [noteOpen EXCEPT ![chord.name] = FALSE]
  /\ Deliver
  /\ UNCHANGED nonPadsVars

PadsNext ==
  \/ \E chord \in Pads : PadsPointerDown(chord)
  \/ \E chord \in Pads : PadsPointerUp(chord)
  \/ \E t \in timers : TimerFire(t) /\ UNCHANGED nonAppVars
  \/ Tick /\ UNCHANGED nonAppVars

SpecPads == InitPads /\ [][PadsNext]_vars

----------------------------------------------------------------------------
(* The run specification: the sequencer is started and stopped, the tempo  *)
(* slider moves only while it is stopped, and a timer callback runs up to  *)
(* MaxLate clock steps after it is due.                                    *)

\* what a step adds to the history of the run: startBeat starting the
\* sequencer opens a new run, any other pass continues the one it is in
RunHistory ==
  IF ~beatRunning /\ beatRunning'
    THEN /\ startedAt' = clock
         /\ stepsDone' = Len(scheduled')
    ELSE /\ startedAt' = startedAt
         /\ stepsDone' = stepsDone + Len(scheduled')

RunUnlock == HandleUnlock /\ RunHistory

RunPanic == HandlePanic /\ RunHistory

RunSetBpm(b) == ~beatRunning /\ SetBpm(b) /\ RunHistory

RunTimerFire(t) == TimerFire(t) /\ RunHistory

RunTick ==
  /\ clock < MaxRunClock * ClockStep
  /\ \A t \in timers : clock < t.due + MaxLate * ClockStep
  /\ Advance
  /\ RunHistory

RunNext ==
  \/ RunUnlock /\ UNCHANGED nonRunVars
  \/ RunPanic /\ UNCHANGED nonRunVars
  \/ \E b \in Bpms : RunSetBpm(b) /\ UNCHANGED nonRunVars
  \/ \E t \in timers : RunTimerFire(t) /\ UNCHANGED nonRunVars
  \/ RunTick /\ UNCHANGED nonRunVars

SpecRun == Init /\ [][RunNext]_vars

----------------------------------------------------------------------------
(* The unmount specification: App is used, then unmounted.  React runs the *)
(* cleanup of each effect; the only effect of App that returns one is the  *)
(* one that registered the blur and visibilitychange listeners.  A         *)
(* component that is not mounted gets no pointer or click events; timers   *)
(* and the audio clock belong to the page and go on.                       *)

\* the cleanup of the effect with the listeners: removeEventListener twice
Unmount ==
  /\ appMounted
  /\ appMounted' = FALSE
  /\ listening' = FALSE
  /\ events' = <<>>
  /\ scheduled' = <<>>
  /\ lastOp' = "unmount"
  /\ emittedBeforeStore' = NoStoreCall
  /\ UNCHANGED <<storeVars, reactVars, hostVars>>

nonLifeVars == <<visualVars, perfVars, pointerVars, voiceVars, runVars, rainVars,
                 paletteVars, qualityVars,
    meshVars, reactorVars>>

UnmountNext ==
  \/ \E chord \in Pads :
       appMounted /\ HandleChordDown(chord) /\ UNCHANGED nonAppVars
  \/ \E chord \in Pads :
       appMounted /\ HandleChordUp(chord) /\ UNCHANGED nonAppVars
  \/ appMounted /\ HandlePanic /\ UNCHANGED nonAppVars
  \/ listening /\ HandleBlur /\ UNCHANGED nonAppVars
  \/ Unmount /\ UNCHANGED nonLifeVars
  \/ \E t \in timers : TimerFire(t) /\ UNCHANGED nonAppVars
  \/ Tick /\ UNCHANGED nonAppVars

SpecUnmount == Init /\ [][UnmountNext]_vars

----------------------------------------------------------------------------
(* The bus specification: handlers subscribe and unsubscribe at any time,  *)
(* App emits, frames run.  MaxEmits bounds the impacts made.               *)

BusEmit(event) ==
  /\ impactCount < MaxEmits
  /\ EmitVisual(event)
  /\ UNCHANGED nonVisualVars

BusAnimate(rain) ==
  /\ rain => impactCount < MaxEmits
  /\ Animate(rain)
  /\ UNCHANGED nonVisualVars

BusNext ==
  \/ \E h \in Handlers : SubscribeVisual(h) /\ UNCHANGED nonVisualVars
  \/ \E h \in Handlers : Unsubscribe(h) /\ UNCHANGED nonVisualVars
  \/ \E event \in VisualEvents : BusEmit(event)
  \/ \E rain \in BOOLEAN : BusAnimate(rain)

SpecBus == Init /\ [][BusNext]_vars

----------------------------------------------------------------------------
(* The reactor specification: ParticleSea is mounted (its effect has       *)
(* subscribed its handler), App emits and frames run until MaxImpacts      *)
(* impacts were made.                                                      *)

InitMounted ==
  /\ InitApp
  /\ hasAudioContextClass
  /\ subscribers = <<"sea">>
  /\ unsubscribes = {"sea"}
  /\ calls = NoCalls
  /\ impacts = <<>>
  /\ impactCount = 0
  /\ impactData = <<>>
  /\ padTarget = [p \in PadIds |-> 0]
  /\ padBase = [p \in PadIds |-> BaseColor]
  /\ InitPerf
  /\ InitPointer
  /\ InitVoice
  /\ InitMore

SeaEmit(event) ==
  /\ impactCount < MaxImpacts
  /\ EmitVisual(event)
  /\ UNCHANGED nonVisualVars

SeaAnimate(rain) ==
  /\ rain => impactCount < MaxImpacts
  /\ Animate(rain)
  /\ UNCHANGED nonVisualVars

SeaNext ==
  \/ \E event \in VisualEvents : SeaEmit(event)
  \/ \E rain \in BOOLEAN : SeaAnimate(rain)

SpecSea == InitMounted /\ [][SeaNext]_vars

----------------------------------------------------------------------------
(* The rain specification: the enhanced ParticleSea from its mount on.     *)
(* Page time (performance.now(), the origin being the page load) is in ms; *)
(* a frame runs delta ms after the one before it, and an event is handled  *)
(* right after a frame.  energy and the two uniforms are in units of       *)
(* 0.0001.  Of animate and of the handler this is the part the rain reads  *)
(* and writes; the impacts are those of Animate and SeaHandle.             *)

\* const clamp = (value, min, max) => Math.max(min, Math.min(max, value))
Clamp(value, min, max) ==
  LET capped == IF value < max THEN value ELSE max
  IN  IF capped > min THEN capped ELSE min

\* raininess > 0.9 && timeSinceNote < 2400 && now - lastRain > 420, with
\* raininess10 = 10 * raininess
RainFalls(now, raininess10, noteAt, rainAt) ==
  raininess10 > 90000 /\ now - noteAt < 2400 /\ now - rainAt > 420

\* animate(now), now = lastTime + delta: the energy decays by 0.4 per second,
\* raininess = uGroove + uSparkle + energy * 0.4; a rain impact is added after
\* updateImpactUniforms
RainFrame(delta) ==
  LET now == lastTime + delta
      decayed == IF energy > delta * 4 THEN energy - delta * 4 ELSE 0
      rain == RainFalls(now, 10 * (uGroove + uSparkle) + 4 * decayed,
                        lastNoteAt, lastRain)
  IN  /\ lastTime' = now
      /\ energy' = decayed
      /\ lastRain' = IF rain THEN now ELSE lastRain
      /\ Animate(rain)
      /\ UNCHANGED <<lastNoteAt, uGroove, uSparkle, noteSeen>>

\* the handler of ParticleSea: what it does to the state the rain reads.
\* strength = clamp(velocity, 0.2, 1) * 1.6, velocity in units of 0.001
RainHandle(event) ==
  /\ energy' =
       CASE event.type = "NOTE_ON" ->
              Clamp(energy + (Clamp(event.velocity, 200, 1000) * 16 * 6) \div 10,
                    0, 20000)
         [] event.type = "NOTE_OFF" -> Clamp(energy + 1000, 0, 20000)
         [] event.type = "CHORD_CHANGE" -> Clamp(energy + 5000, 0, 20000)
         [] event.type = "PANIC" -> 4000
         [] OTHER -> energy
  /\ lastNoteAt' = IF event.type = "NOTE_ON" THEN lastTime ELSE lastNoteAt
  /\ noteSeen' = (noteSeen \/ event.type = "NOTE_ON")
  /\ uGroove' = IF event.type = "GROOVE_CHANGE"
                  THEN Clamp(event.amount * 55, 400, 5000) ELSE uGroove
  /\ uSparkle' = IF event.type = "MAGIC_CHANGE"
                   THEN Clamp(event.amount * 70, 800, 7500) ELSE uSparkle
  /\ UNCHANGED <<lastTime, lastRain>>

\* the events App emits: the pads' (velocity = Math.max(0.2, event.pressure
\* || 0.7), the pressure of a mouse button being 0.5), PANIC, and the two
\* sliders', amount in percent
RainEvents ==
  {[type |-> "CHORD_CHANGE", chordName |-> c.name] : c \in Pads}
  \cup {[type |-> "NOTE_ON", note |-> c.notes[1], velocity |-> 500,
         chordId |-> c.name] : c \in Pads}
  \cup {[type |-> "NOTE_OFF", note |-> c.notes[1]] : c \in Pads}
  \cup {[type |-> "PANIC"]}
  \cup {[type |-> "GROOVE_CHANGE", amount |-> g] : g \in RainGrooves}
  \cup {[type |-> "MAGIC_CHANGE", amount |-> m] : m \in Magics}

\* ParticleSea mounted at one of the MountTimes
InitRainMounted ==
  /\ InitApp
  /\ hasAudioContextClass
  /\ subscribers = <<"sea">>
  /\ unsubscribes = {"sea"}
  /\ calls = NoCalls
  /\ impacts = <<>>
  /\ impactCount = 0
  /\ impactData = <<>>
  /\ padTarget = [p \in PadIds |-> 0]
  /\ padBase = [p \in PadIds |-> BaseColor]
  /\ InitPerf
  /\ InitPointer
  /\ InitVoice
  /\ InitRun
  /\ InitLife
  /\ InitPalette
  /\ InitQuality(FALSE)
  /\ InitMesh(NarrowRect)
  /\ InitReactors
  /\ \E t \in MountTimes : InitRain(t)

nonRainVars == <<appVars, perfVars, pointerVars, voiceVars, runVars, lifeVars,
                 paletteVars, qualityVars,
    meshVars, reactorVars>>

RainEmit(event) ==
  /\ impactCount < MaxRainImpacts
  /\ EmitVisual(event)
  /\ RainHandle(event)
  /\ UNCHANGED nonRainVars

RainAnimate(delta) ==
  /\ impactCount < MaxRainImpacts
  /\ lastTime + delta <= MaxRainTime
  /\ RainFrame(delta)
  /\ UNCHANGED nonRainVars

RainNext ==
  \/ \E event \in RainEvents : RainEmit(event)
  \/ \E delta \in RainDeltas : RainAnimate(delta)

SpecRain == InitRainMounted /\ [][RainNext]_vars

----------------------------------------------------------------------------
(* The palette specification: the enhanced ParticleSea's palette.  Of the  *)
(* handler and of animate this is the part that reads and writes paletteA, *)
(* targetPalette, paletteBlend and uColorA; nothing else in them does.     *)
(* uColorB is set from the same mix as uColorA.                            *)

Abs(x) == IF x < 0 THEN 0 - x ELSE x

\* palette.ts hslToRgb(hue, 0.7, 0.6) for a hue in 0..359: c = (1 - |2l - 1|) s
\* = 0.56, x = c (1 - |(hue / 60) % 2 - 1|), m = l - c / 2 = 0.32
HslToRgb(hue) ==
  LET c == 5600
      x == (c * (60 - Abs((hue % 120) - 60))) \div 60
      m == 3200
      rgb == CASE hue < 60 -> <<c, x, 0>>
               [] hue < 120 -> <<x, c, 0>>
               [] hue < 180 -> <<0, c, x>>
               [] hue < 240 -> <<0, x, c>>
               [] hue < 300 -> <<x, 0, c>>
               [] OTHER -> <<c, 0, x>>
  IN  <<rgb[1] + m, rgb[2] + m, rgb[3] + m>>

\* palette.ts noteToColor
NoteToColor(note) == HslToRgb((note * 22) % 360)

\* palette.ts chordPalette, the entries of the pads the model presses
ChordPalette == [C |-> <<10000, 2000, 5500>>, G |-> <<2500, 3200, 9500>>]

\* palette.ts chordToColor
ChordToColor(chordName) ==
  IF chordName \in DOMAIN ChordPalette THEN ChordPalette[chordName]
  ELSE NoteToColor(Len(chordName) * 7)

\* palette.ts mixColors, t in units of 0.0001
MixColors(a, b, t) == [i \in 1..3 |-> a[i] + ((b[i] - a[i]) * t) \div 10000]

\* the handler of ParticleSea: NOTE_ON and CHORD_CHANGE set a new target
\* and paletteBlend = 0, PANIC also sets paletteA
PaletteHandle(event) ==
  /\ event.type \in {"NOTE_ON", "CHORD_CHANGE", "PANIC"}
  /\ targetPalette' =
       CASE event.type = "NOTE_ON" -> NoteToColor(event.note)
         [] event.type = "CHORD_CHANGE" -> ChordToColor(event.chordName)
         [] OTHER -> ColorB0
  /\ paletteA' = IF event.type = "PANIC" THEN ColorA0 ELSE paletteA
  /\ paletteBlend' = 0
  /\ frameDelta' = 0
  /\ UNCHANGED uColorA

\* animate(now), delta ms after the frame before it:
\* if (paletteBlend < 1) { paletteBlend = clamp(paletteBlend + delta * 0.6, 0, 1);
\* uColorA = mix; if (paletteBlend >= 1) paletteA = targetPalette.clone() }
PaletteFrame(delta) ==
  /\ frameDelta' = delta
  /\ IF paletteBlend < 10000
       THEN /\ paletteBlend' = Clamp(paletteBlend + delta * 6, 0, 10000)
            /\ uColorA' = MixColors(paletteA, targetPalette, paletteBlend')
            /\ paletteA' = IF paletteBlend' >= 10000 THEN targetPalette
                           ELSE paletteA
       ELSE UNCHANGED <<paletteBlend, uColorA, paletteA>>
  /\ UNCHANGED targetPalette

nonPaletteVars == <<appVars, visualVars, perfVars, pointerVars, voiceVars, runVars,
                    lifeVars, rainVars, qualityVars,
    meshVars, reactorVars>>

PaletteNext ==
  \/ \E event \in VisualEvents : PaletteHandle(event) /\ UNCHANGED nonPaletteVars
  \/ \E delta \in PaletteDeltas : PaletteFrame(delta) /\ UNCHANGED nonPaletteVars

SpecPalette == Init /\ [][PaletteNext]_vars

----------------------------------------------------------------------------
(* The quality specification: the enhanced ParticleSea's particle count    *)
(* and pixel ratio cap.  A frame calls applyQuality(perf.getAction()); the *)
(* action is an input here, any of the three in any frame.  dprMax is in   *)
(* units of 0.05.                                                          *)

QualityActions == {"decrease", "increase", "hold"}

\* applyQuality whose decrease has no floor
ApplyQualityNoFloor(q, action) ==
  CASE action = "decrease" ->
         [q EXCEPT !.activeCount = (q.activeCount * 75) \div 100,
                   !.drawRange = (q.activeCount * 75) \div 100,
                   !.dprMax = q.dprMax - 5]
    [] action = "increase" ->
         [q EXCEPT !.activeCount = (q.activeCount * 110) \div 100,
                   !.drawRange = (q.activeCount * 110) \div 100,
                   !.dprMax = q.dprMax + 2]
    [] OTHER -> q

\* applyQuality(action), q = [maxCount, activeCount, dprMax, drawRange]
ApplyQuality(q, action) ==
  CASE action = "decrease" ->
         LET shrunk == (q.activeCount * 75) \div 100
             floor == (q.maxCount * 35) \div 100
             count == IF shrunk > floor THEN shrunk ELSE floor
         IN  [q EXCEPT !.activeCount = count,
                       !.drawRange = count,
                       !.dprMax = IF q.dprMax - 5 > 20 THEN q.dprMax - 5 ELSE 20]
    [] action = "increase" ->
         LET grown == (q.activeCount * 110) \div 100
             count == IF grown < q.maxCount THEN grown ELSE q.maxCount
         IN  [q EXCEPT !.activeCount = count,
                       !.drawRange = count,
                       !.dprMax = IF q.dprMax + 2 < 32 THEN q.dprMax + 2 ELSE 32]
    [] OTHER -> q

\* the handler of ParticleSea on DENSITY_CHANGE, amount in percent:
\* targetCount = Math.floor(maxCount * (0.35 + event.amount * 0.65)),
\* activeCount = clamp(targetCount, Math.floor(maxCount * 0.3), maxCount)
DensityChange(q, amount) ==
  LET targetCount == (q.maxCount * (3500 + amount * 65)) \div 10000
      count == Clamp(targetCount, (q.maxCount * 30) \div 100, q.maxCount)
  IN  [q EXCEPT !.activeCount = count, !.drawRange = count]

Quality ==
  [maxCount |-> maxCount, activeCount |-> activeCount, dprMax |-> dprMax,
   drawRange |-> drawRange]

SetQuality(q) ==
  /\ maxCount' = q.maxCount
  /\ activeCount' = q.activeCount
  /\ dprMax' = q.dprMax
  /\ drawRange' = q.drawRange

QualityFrame(action) == SetQuality(ApplyQuality(Quality, action))

QualityDensity(amount) == SetQuality(DensityChange(Quality, amount))

InitQualityMounted ==
  /\ InitApp
  /\ InitVisual
  /\ InitPerf
  /\ InitPointer
  /\ InitVoice
  /\ InitRun
  /\ InitLife
  /\ InitRain(0)
  /\ InitPalette
  /\ InitMesh(NarrowRect)
  /\ InitReactors
  /\ \E mobile \in BOOLEAN : InitQuality(mobile)

nonQualityVars == <<appVars, visualVars, perfVars, pointerVars, voiceVars, runVars,
                    lifeVars, rainVars, paletteVars,
    meshVars, reactorVars>>

QualityNext ==
  \/ \E action \in QualityActions :
       QualityFrame(action) /\ UNCHANGED nonQualityVars
  \/ \E amount \in QualityDensities :
       QualityDensity(amount) /\ UNCHANGED nonQualityVars

SpecQuality == InitQualityMounted /\ [][QualityNext]_vars

----------------------------------------------------------------------------
(* The mesh specification: HardwarePads3D as a unit, mounted, its handler  *)
(* given the NOTE_ON and NOTE_OFF events of the VisualEvent type (App's,   *)
(* and NOTE_ON events whose chordId is the id of a pad mesh), its frames   *)
(* and its layout updates.  Intensities are in units of 0.0001.            *)

\* animate, one pad: the intensity eases to the target
\*   pad.intensity += (pad.target - pad.intensity) * 0.12
\*   if (pad.target > 0.1 && pad.intensity < 0.6) pad.intensity += 0.04
\*   if (pad.target <= 0.01) pad.intensity *= 0.92
EaseIntensity(intensity, target) ==
  LET eased == intensity + ((target * 10000 - intensity) * 12) \div 100
      lifted == IF target = 1 /\ eased < 6000 THEN eased + 400 ELSE eased
  IN  IF target = 0 THEN (lifted * 92) \div 100 ELSE lifted

\* animate, one pad: press = 1 - intensity * 0.02 (in units of 0.0001),
\* pad.mesh.scale.set(pad.mesh.scale.x, pad.mesh.scale.y * press, 1)
PressScale(scale, intensity) ==
  LET press == 10000 - (intensity * 2) \div 100
  IN  [x |-> scale.x, y |-> (scale.y * press) \div 10000]

\* animate of HardwarePads3D: every pad eased and pressed, then the render
MeshFrame ==
  /\ padIntensity' =
       [p \in PadIds |-> EaseIntensity(padIntensity[p], padTarget[p])]
  /\ meshScale' = [p \in PadIds |-> PressScale(meshScale[p], padIntensity'[p])]
  /\ padFrames' = padFrames + 1
  /\ UNCHANGED <<padRect, visualVars>>

\* updateLayout (ResizeObserver, scroll, resize): every pad's rectangle is
\* read and its mesh scaled to it
MeshLayout(rect) ==
  /\ padRect' = [p \in PadIds |-> rect]
  /\ meshScale' = [p \in PadIds |-> ScaleOf(rect)]
  /\ UNCHANGED <<padIntensity, padFrames, visualVars>>

\* NOTE_ON events that name a pad mesh by its id, and the events of App
MeshEvents ==
  {[type |-> "NOTE_ON", note |-> c.notes[1], chordId |-> PadId(c)] : c \in Pads}
  \cup {e \in VisualEvents : e.type \in {"NOTE_ON", "NOTE_OFF"}}

\* the handler of HardwarePads3D called with event
MeshHandle(event) ==
  LET st == PadsHandle([padTarget |-> padTarget, padBase |-> padBase], event)
  IN  /\ padTarget' = st.padTarget
      /\ padBase' = st.padBase
      /\ UNCHANGED <<busVars, seaVars, meshVars>>

nonMeshVars == <<appVars, perfVars, pointerVars, voiceVars, runVars, lifeVars,
                 rainVars, paletteVars, qualityVars, reactorVars>>

MeshNext ==
  \/ \E event \in MeshEvents : MeshHandle(event) /\ UNCHANGED nonMeshVars
  \/ padFrames < MaxPadFrames /\ MeshFrame /\ UNCHANGED nonMeshVars
  \/ \E rect \in PadRects : MeshLayout(rect) /\ UNCHANGED nonMeshVars

SpecMesh == InitPads /\ [][MeshNext]_vars

----------------------------------------------------------------------------
(* The teardown specification: both reactors are mounted and subscribed,   *)
(* App emits, the browser runs the frame callbacks that are pending, and   *)
(* React unmounts either reactor at any time (the cleanup its effect       *)
(* returned; JavaScript runs it between two callbacks, never inside one).  *)

\* requestAnimationFrame returns an id that no pending request has and that
\* is not the one the caller still holds (ids are never used again)
FreshFrameId(pending, held) ==
  CHOOSE n \in 1..(Cardinality(pending) + 2) : n \notin pending \cup {held}

\* cancelAnimationFrame that cancels nothing
CancelAnimationFrameKeeps(pending, id) == pending

\* cancelAnimationFrame(id)
CancelAnimationFrame(pending, id) == pending \ {id}

\* the end of animate: renderer.render(scene, camera), then
\* animationFrame = requestAnimationFrame(animate); id is the request that
\* is being run
FrameLoop(r, id) ==
  LET left == rafPending[r] \ {id}
      next == FreshFrameId(left, rafHandle[r])
  IN  /\ rafPending' = [rafPending EXCEPT ![r] = left \cup {next}]
      /\ rafHandle' = [rafHandle EXCEPT ![r] = next]
      /\ ranReleased' = [ranReleased EXCEPT ![r] = @ \/ released[r]]
      /\ UNCHANGED <<released, disposeSaw>>

\* animate(now) of ParticleSea, run for the request id
SeaFrame(id, rain) ==
  /\ id \in rafPending["sea"]
  /\ rain => impactCount < MaxEmits
  /\ Animate(rain)
  /\ FrameLoop("sea", id)
  /\ UNCHANGED meshVars

\* animate() of HardwarePads3D, run for the request id
PadsFrame(id) ==
  /\ id \in rafPending["pads"]
  /\ padFrames < MaxPadFrames
  /\ MeshFrame
  /\ FrameLoop("pads", id)

\* the cleanup of a reactor's effect, in the order of its statements:
\* unsubscribe(), resizeObserver.disconnect() (and the listeners removed),
\* if (animationFrame) cancelAnimationFrame(animationFrame), then
\* renderer.dispose() and the materials and geometry
Teardown(r) ==
  LET subs == SetDelete(subscribers, r)
      pending == IF rafHandle[r] # 0
                   THEN CancelAnimationFrame(rafPending[r], rafHandle[r])
                   ELSE rafPending[r]
  IN  /\ ~released[r]
      /\ subscribers' = subs
      /\ rafPending' = [rafPending EXCEPT ![r] = pending]
      /\ disposeSaw' = [disposeSaw EXCEPT ![r] =
                          [pending |-> pending,
                           subscribed |-> \E i \in DOMAIN subs : subs[i] = r]]
      /\ released' = [released EXCEPT ![r] = TRUE]
      /\ calls' = NoCalls
      /\ impactData' = <<>>
      /\ UNCHANGED <<unsubscribes, impacts, impactCount, padsVars, meshVars,
                     rafHandle, ranReleased>>

\* emitVisual(event) of App reaching the handlers still subscribed
TeardownEmit(event) ==
  /\ impactCount < MaxEmits
  /\ EmitVisual(event)
  /\ ranReleased' = [r \in Handlers |->
                       ranReleased[r] \/ (released[r] /\ calls'[r] > 0)]
  /\ UNCHANGED <<meshVars, rafPending, rafHandle, released, disposeSaw>>

InitTeardown ==
  /\ InitApp
  /\ subscribers = <<"sea", "pads">>
  /\ unsubscribes = {"sea", "pads"}
  /\ calls = NoCalls
  /\ impacts = <<>>
  /\ impactCount = 0
  /\ impactData = <<>>
  /\ padTarget = [p \in PadIds |-> 0]
  /\ padBase = [p \in PadIds |-> BaseColor]
  /\ InitPerf
  /\ InitPointer
  /\ InitVoice
  /\ InitMore

nonTeardownVars == <<appVars, perfVars, pointerVars, voiceVars, runVars, lifeVars,
                     rainVars, paletteVars, qualityVars>>

TeardownNext ==
  \/ \E event \in VisualEvents : TeardownEmit(event) /\ UNCHANGED nonTeardownVars
  \/ \E id \in rafPending["sea"], rain \in BOOLEAN :
       SeaFrame(id, rain) /\ UNCHANGED nonTeardownVars
  \/ \E id \in rafPending["pads"] : PadsFrame(id) /\ UNCHANGED nonTeardownVars
  \/ \E r \in Handlers : Teardown(r) /\ UNCHANGED nonTeardownVars

SpecTeardown == InitTeardown /\ [][TeardownNext]_vars

----------------------------------------------------------------------------
(* The monitor specification: frames of any of the Deltas, each running    *)
(* tick and then getAction as animate does.                                *)

PerfNext == \E delta \in Deltas : PerfFrame(delta) /\ UNCHANGED nonPerfVars

SpecPerf == Init /\ [][PerfNext]_vars

----------------------------------------------------------------------------
(* The voice specification: one voice, stop() called up to MaxStops times  *)
(* with any of the releases, at any time of its life.                      *)

VoiceNext ==
  \/ \E release \in Releases : VoiceStop(release) /\ UNCHANGED nonVoiceVars
  \/ VoiceTick /\ UNCHANGED nonVoiceVars

SpecVoice == Init /\ [][VoiceNext]_vars

----------------------------------------------------------------------------
(* Properties of the audio store (checked under Spec).                     *)

\* the voices that have not received stop()
Sounding == {i \in DOMAIN voices : voices[i].stops = 0}

\* C1: at most one chord voice has not received stop(), and it is the current
\* one: every voice the store no longer refers to has been stopped.
C1_OneSoundingVoice ==
  /\ Cardinality(Sounding) <= 1
  /\ \A i \in DOMAIN voices : i # currentChordVoice => voices[i].stops >= 1

\* a chord press has replaced a sounding voice: the old one is stopped
C1_Witness ==
  /\ lastOp = "handleChordDown"
  /\ Len(voices) >= 2
  /\ voices[1].stops = 1
  /\ currentChordVoice = 2
  /\ voices[2].stops = 0

\* the spacing a scheduleBeat pass gives step i of `scheduled`: to the next step of
\* the pass, or to nextStepTime for the last one
Spacing(i) ==
  (IF i < Len(scheduled) THEN scheduled[i + 1].time ELSE nextStepTime)
  - scheduled[i].time

\* C2: every step a scheduleBeat pass schedules is spaced (60/B)/4 seconds from the
\* next one, B being the tempo slider's value when the pass runs, also in the
\* passes run by the timer of a sequencer started before the slider moved.
C2_StepDurFollowsTempo ==
  lastOp \in {"timer", "handleChordDown", "handleUnlock"} =>
    \A i \in DOMAIN scheduled : Spacing(i) = StepDur(bpm)

\* C9: startBeat while the sequencer runs changes neither nextStepTime, stepIndex
\* nor the pending timer, and there is never a second pending scheduler timer.
C9_StartBeatIdempotent ==
  /\ [](Cardinality(timers) <= 1)
  /\ [][(beatRunning /\ lastOp' \in {"handleChordDown", "handleUnlock"}) =>
          /\ nextStepTime' = nextStepTime
          /\ stepIndex' = stepIndex
          /\ schedulerTimer' = schedulerTimer
          /\ timers' = timers
          /\ beatRunning']_vars

\* handleUnlock ran while the sequencer was running (a start always schedules a
\* step, so an empty pass under a running sequencer is a skipped startBeat)
C9_Witness ==
  /\ lastOp = "handleUnlock"
  /\ beatRunning
  /\ scheduled = <<>>
  /\ stepIndex > 1
  /\ Cardinality(timers) = 1

\* C10: between handlers beatRunning holds exactly when schedulerTimer is non-null,
\* and then exactly that one timer is pending; when it does not hold no timer is
\* pending, so no scheduleBeat pass can run until the next startBeat.
C10_RunningIffTimerPending ==
  /\ beatRunning <=> schedulerTimer # NoTimer
  /\ beatRunning => \E t \in timers : timers = {t} /\ t.id = schedulerTimer
  /\ ~beatRunning => timers = {}

\* a sequencer that had scheduled steps was stopped by panic
C10_Witness ==
  /\ lastOp = "handlePanic"
  /\ ~beatRunning
  /\ stepIndex > 1
  /\ timers = {}
  /\ schedulerTimer = NoTimer

----------------------------------------------------------------------------
(* Properties of the drum pattern (checked under SpecPattern).  After a    *)
(* scheduleBeat pass the timer it armed carries the closure the pass ran   *)
(* with, and `scheduled` holds the steps it handed to the drum generators. *)

\* the kinds of hit among the calls of one step: (drum, call site)
Kinds(hits) == {<<h.drum, h.extra>> : h \in hits}

KickHits(s) == {h \in s.hits : h.drum = "kick"}

SnareHits(s) == {h \in s.hits : h.drum = "snare"}

HatHits(s) == {h \in s.hits : h.drum = "hat" /\ ~h.extra}

ExtraHatHits(s) == {h \in s.hits : h.drum = "hat" /\ h.extra}

\* C3: every hit of a scheduled step is also a hit of that step at every higher
\* density, and every hit of that step at a lower density is a hit of it.
C3_HitsMonotoneInDensity ==
  \A t \in timers : \A i \in DOMAIN scheduled :
    LET s == scheduled[i]
        c == [bpm |-> t.bpm, groove |-> t.groove, density |-> t.density]
    IN  \A d \in Densities :
          LET other == Kinds(StepHits(s.step, s.time, [c EXCEPT !.density = d]))
          IN  /\ d <= t.density => other \subseteq Kinds(s.hits)
              /\ d >= t.density => Kinds(s.hits) \subseteq other

\* step 15 at full density carries the hi-hat and the extra hi-hat, neither of
\* which it has at density 0
C3_Witness ==
  \E t \in timers : \E i \in DOMAIN scheduled :
    /\ lastOp = "timer"
    /\ t.density = 100
    /\ scheduled[i].step = 15
    /\ Kinds(scheduled[i].hits) = {<<"hat", FALSE>>, <<"hat", TRUE>>}
    /\ StepHits(15, scheduled[i].time,
                [bpm |-> t.bpm, groove |-> t.groove, density |-> 0]) = {}

\* C4: a scheduled step has a kick iff it is step 0, or step 8 with density > 0.25.
C4_KickRule ==
  \A t \in timers : \A i \in DOMAIN scheduled :
    LET s == scheduled[i]
    IN  KickHits(s) # {} <=> (s.step = 0 \/ (s.step = 8 /\ t.density > 25))

\* step 8 was scheduled at density exactly 0.25, without a kick
C4_Witness ==
  \E t \in timers : \E i \in DOMAIN scheduled :
    /\ lastOp = "timer"
    /\ t.density = 25
    /\ scheduled[i].step = 8
    /\ KickHits(scheduled[i]) = {}

\* C5: a scheduled step has a snare iff it is step 4 or 12, or step 14 with
\* density > 0.8.
C5_SnareRule ==
  \A t \in timers : \A i \in DOMAIN scheduled :
    LET s == scheduled[i]
    IN  SnareHits(s) # {} <=>
          (s.step = 4 \/ s.step = 12 \/ (s.step = 14 /\ t.density > 80))

\* step 14 was scheduled at density 0.81, with its snare
C5_Witness ==
  \E t \in timers : \E i \in DOMAIN scheduled :
    /\ lastOp = "timer"
    /\ t.density = 81
    /\ scheduled[i].step = 14
    /\ SnareHits(scheduled[i]) # {}

\* C6: a scheduled step has the regular hi-hat iff it is even or density > 0.35.
C6_HatRule ==
  \A t \in timers : \A i \in DOMAIN scheduled :
    LET s == scheduled[i]
    IN  HatHits(s) # {} <=> (s.step % 2 = 0 \/ t.density > 35)

\* an odd step was scheduled at density 0.36, with its hi-hat
C6_Witness ==
  \E t \in timers : \E i \in DOMAIN scheduled :
    /\ lastOp = "timer"
    /\ t.density = 36
    /\ scheduled[i].step = 5
    /\ HatHits(scheduled[i]) # {}

\* C7 as claimed: the extra off-grid hi-hat fires only on steps 8..11 and only
\* when density > 0.7.
C7_ExtraHatOnThirdBeat ==
  \A t \in timers : \A i \in DOMAIN scheduled :
    LET s == scheduled[i]
    IN  ExtraHatHits(s) # {} => (s.step \in 8..11 /\ t.density > 70)

\* C7 amended: the extra off-grid hi-hat fires only on the last sixteenth of a
\* quarter-note beat (step mod 4 = 3: steps 3, 7, 11, 15) and only when
\* density > 0.7; it is scheduled half a step after the step's swung hi-hat time.
C7_ExtraHatOnLastSixteenth ==
  \A t \in timers : \A i \in DOMAIN scheduled :
    LET s == scheduled[i]
    IN  \A h \in ExtraHatHits(s) :
          /\ s.step \in {3, 7, 11, 15}
          /\ t.density > 70
          /\ 2 * (h.time - s.time - s.swing) = StepDur(t.bpm)

\* step 3 was scheduled at density 0.71, with the extra hi-hat
C7_Witness ==
  \E t \in timers : \E i \in DOMAIN scheduled :
    /\ lastOp = "timer"
    /\ t.density = 71
    /\ scheduled[i].step = 3
    /\ ExtraHatHits(scheduled[i]) # {}

\* C8: the swing offset of a hi-hat (regular or extra) is 0 on even steps and at
\* groove 0, is (groove/100) * 0.12 * stepDur on odd steps, at most 12% of a step
\* (reached at groove 100); kick and snare times carry no swing offset.
C8_SwingRule ==
  \A t \in timers : \A i \in DOMAIN scheduled :
    LET s == scheduled[i]
        offsets == {h.time - s.time : h \in HatHits(s)}
                     \cup {h.time - s.time - (StepDur(t.bpm) \div 2) : h \in ExtraHatHits(s)}
    IN  /\ \A o \in offsets :
             /\ s.step % 2 = 0 => o = 0
             /\ t.groove = 0 => o = 0
             /\ s.step % 2 = 1 => 100 * 100 * o = t.groove * 12 * StepDur(t.bpm)
             /\ 100 * o <= 12 * StepDur(t.bpm)
             /\ (s.step % 2 = 1 /\ t.groove = 100) => 100 * o = 12 * StepDur(t.bpm)
        /\ \A h \in KickHits(s) : h.time = s.time
        /\ \A h \in SnareHits(s) :
             h.time = (IF h.extra THEN s.time + Ms(10) ELSE s.time)

\* an odd step was scheduled at groove 100 with a hi-hat 12% of a step late
C8_Witness ==
  \E t \in timers : \E i \in DOMAIN scheduled :
    /\ lastOp = "timer"
    /\ t.groove = 100
    /\ scheduled[i].step = 7
    /\ \E h \in HatHits(scheduled[i]) :
         /\ h.time > scheduled[i].time
         /\ 100 * (h.time - scheduled[i].time) = 12 * StepDur(t.bpm)

----------------------------------------------------------------------------
(* Properties of the visual bus (checked under SpecBus).                   *)

Subscribed(h) == \E i \in DOMAIN subscribers : subscribers[i] = h

\* the handlers other than h, in their order of registration
Others(set, h) == SelectSeq(set, LAMBDA x : x # h)

\* C11: emitVisual(event) invokes every handler registered at the time of
\* the call exactly once and no other, within the emitting step; what the
\* handler of ParticleSea does with the event (the impact of a NOTE_ON,
\* NOTE_OFF or PANIC, put at the head of the list) is in place when the
\* step ends, so before any later animation frame.
C11_EmitIsSynchronous ==
  [][\A e \in VisualEvents :
       EmitVisual(e) =>
         /\ \A h \in Handlers : calls'[h] = IF Subscribed(h) THEN 1 ELSE 0
         /\ (Subscribed("sea") /\ e.type \in {"NOTE_ON", "NOTE_OFF", "PANIC"}) =>
              /\ impactCount' = impactCount + 1
              /\ impacts' # <<>>
              /\ impacts'[1] = Impact(e.type, impactCount + 1)]_vars

\* both handlers are registered and the NOTE_ON just emitted reached both
C11_Witness ==
  /\ Len(subscribers) = 2
  /\ \A h \in Handlers : calls[h] = 1
  /\ impacts # <<>>
  /\ impacts[1].from = "NOTE_ON"

\* C12: the closure returned by subscribeVisual(h) removes handler h and no
\* other, and does nothing when h is not registered; a handler is registered
\* at most once however often it subscribes, and is invoked at most once per
\* emit.
C12_UnsubscribeRemovesExactlyOne ==
  /\ [](/\ \A i, j \in DOMAIN subscribers :
              subscribers[i] = subscribers[j] => i = j
        /\ \A h \in Handlers : calls[h] <= 1)
  /\ [][\A h \in Handlers :
          Unsubscribe(h) =>
            /\ ~(\E i \in DOMAIN subscribers' : subscribers'[i] = h)
            /\ Others(subscribers', h) = Others(subscribers, h)
            /\ ~Subscribed(h) => subscribers' = subscribers]_vars

\* both handlers subscribed, the closure of "sea" was called, and an emit
\* reached "pads" alone
C12_Witness ==
  /\ unsubscribes = Handlers
  /\ subscribers = <<"pads">>
  /\ calls["pads"] = 1
  /\ calls["sea"] = 0

----------------------------------------------------------------------------
(* Properties of the impact list (checked under SpecSea).                  *)

\* C15: the impact list holds the min(n, IMPACT_LIMIT) most recent of the n
\* impacts added so far, newest first; a frame writes entry i of the list to
\* uniform slot i and the inert default to every slot past the list's end.
C15_ImpactsKeepNewestEight ==
  /\ [](/\ Len(impacts) = (IF impactCount < IMPACT_LIMIT
                             THEN impactCount ELSE IMPACT_LIMIT)
        /\ \A i \in DOMAIN impacts : impacts[i].nth = impactCount + 1 - i)
  /\ [][impactData' # <<>> =>
          \A i \in 1..IMPACT_LIMIT :
            impactData'[i] =
              IF i <= Len(impacts) THEN impacts[i] ELSE InertImpact]_vars

\* more than IMPACT_LIMIT impacts were added and a frame wrote a full list
C15_Witness ==
  /\ impactCount > IMPACT_LIMIT
  /\ impactData # <<>>
  /\ impactData[IMPACT_LIMIT] # InertImpact
  /\ impactData[1].nth > IMPACT_LIMIT

----------------------------------------------------------------------------
(* Properties of FpsMonitor (checked under SpecPerf).                      *)

\* C13: with getAction called after every tick, it returns 'decrease' in
\* the frame whose tick closes the second window in a row with an average
\* below 45, 'increase' in the frame whose tick closes the fourth window in
\* a row with an average above 58, the count starting anew after each
\* returned action, and 'hold' in every other frame.
C13_ActionOnSecondLowFourthHigh ==
  /\ perfAction = "decrease" <=>
       (windowClosed # <<>> /\ Below45(windowClosed) /\ runLen = 2)
  /\ perfAction = "increase" <=>
       (windowClosed # <<>> /\ Above58(windowClosed) /\ runLen = 4)
  /\ perfAction \in {"decrease", "increase", "hold"}

\* the fourth window in a row above 58 FPS has just closed, at 100 FPS
C13_Witness ==
  /\ perfAction = "increase"
  /\ windowClosed = <<100, 1000>>
  /\ runLen = 4

\* C14: a window that closes with 45 <= average FPS <= 58 leaves both
\* streaks at zero; while every closed window lay in that band no frame
\* returns 'decrease' or 'increase'; at most one of lowStreak and highStreak
\* is non-zero.
C14_BandResetsStreaks ==
  /\ (windowClosed # <<>> /\ ~Below45(windowClosed) /\ ~Above58(windowClosed))
       => (perf.lowStreak = 0 /\ perf.highStreak = 0)
  /\ ~everOutOfBand => perfAction = "hold"
  /\ perf.lowStreak = 0 \/ perf.highStreak = 0

\* a window at exactly 45 FPS closes after a low one and clears the streak
C14_Witness ==
  /\ windowClosed = <<45, 1000>>
  /\ everOutOfBand
  /\ runClass = "band"
  /\ perf.lowStreak = 0

----------------------------------------------------------------------------
(* Properties of the gesture handlers (checked under Spec).                *)

\* C16: a pointer-down on pad X emits CHORD_CHANGE(chordName = X) and then
\* NOTE_ON(note = first note of X, chordId = X) when X is not the current
\* chord, and the NOTE_ON alone when it is; nothing else is emitted, and
\* all of it before the handler calls startBeat().
C16_ChordDownEmitsInOrder ==
  [][lastOp' = "handleChordDown" =>
       \E chord \in Pads :
         LET change == [type |-> "CHORD_CHANGE", chordName |-> chord.name]
             on == [type |-> "NOTE_ON", note |-> chord.notes[1],
                    chordId |-> chord.name]
         IN  /\ events' = IF currentChordName # chord.name
                            THEN <<change, on>> ELSE <<on>>
             /\ emittedBeforeStore' = Len(events')]_vars

\* a press of a new chord that also started the sequencer
C16_Witness ==
  /\ lastOp = "handleChordDown"
  /\ Len(events) = 2
  /\ events[1].type = "CHORD_CHANGE"
  /\ events[2].type = "NOTE_ON"
  /\ scheduled # <<>>
  /\ emittedBeforeStore = 2

\* C18: handlePanic stops the current chord voice if there is one, leaves
\* currentChordVoice, currentChordName and the active chord null, the
\* sequencer stopped with no timer pending, and emits one PANIC event with
\* no payload and nothing else, after stopAll() has run.
C18_PanicClearsThenEmits ==
  [][lastOp' = "handlePanic" =>
       /\ currentChordVoice # NoVoice =>
            voices'[currentChordVoice].stops = voices[currentChordVoice].stops + 1
       /\ \A i \in DOMAIN voices :
            i # currentChordVoice => voices'[i] = voices[i]
       /\ currentChordVoice' = NoVoice
       /\ currentChordName' = NoChord
       /\ activeChord' = NoChord
       /\ ~beatRunning'
       /\ schedulerTimer' = NoTimer
       /\ timers' = {}
       /\ events' = <<[type |-> "PANIC"]>>
       /\ emittedBeforeStore' = 0]_vars

\* a panic after a chord was pressed and the sequencer had run for a while
C18_Witness ==
  /\ lastOp = "handlePanic"
  /\ events = <<[type |-> "PANIC"]>>
  /\ Len(voices) = 1
  /\ voices[1].stops = 1
  /\ stepIndex > 0
  /\ clock > 0
  /\ ~beatRunning

\* C19: on a host without an audio-context constructor audioCtx stays null,
\* no chord voice is ever made, the sequencer never runs and no timer is
\* ever armed, whatever is pressed; every handler can still run, and chord
\* presses, releases and panic still emit their visual events.
C19_NoAudioIsSilentNoOp ==
  ~hasAudioContextClass =>
    /\ ~audioCtx
    /\ currentChordVoice = NoVoice
    /\ voices = <<>>
    /\ ~beatRunning
    /\ schedulerTimer = NoTimer
    /\ timers = {}
    /\ scheduled = <<>>
    /\ lastOp = "handleChordDown" =>
         (events # <<>> /\ events[Len(events)].type = "NOTE_ON")
    /\ lastOp = "handleChordUp" => events = <<[type |-> "NOTE_OFF",
                                               note |-> events[1].note]>>
    /\ lastOp = "handlePanic" => events = <<[type |-> "PANIC"]>>
    /\ \A chord \in Pads :
         /\ ENABLED (HandleChordDown(chord) /\ UNCHANGED nonAppVars)
         /\ ENABLED (HandleChordUp(chord) /\ UNCHANGED nonAppVars)
    /\ ENABLED (HandleUnlock /\ UNCHANGED nonAppVars)
    /\ ENABLED (HandlePanic /\ UNCHANGED nonAppVars)

\* a chord press on a host without audio: both events, no voice, no sequencer
C19_Witness ==
  /\ ~hasAudioContextClass
  /\ lastOp = "handleChordDown"
  /\ Len(events) = 2
  /\ currentChordName # NoChord
  /\ currentChordVoice = NoVoice
  /\ ~beatRunning

----------------------------------------------------------------------------
(* Properties of the pointer handlers (checked under SpecPointer).         *)

\* the step emits a NOTE_OFF for pad chord
EmitsNoteOff(chord) ==
  \E i \in DOMAIN events' :
    events'[i] = [type |-> "NOTE_OFF", note |-> chord.notes[1]]

\* the step emits a NOTE_ON for pad chord
EmitsNoteOn(chord) ==
  \E i \in DOMAIN events' :
    events'[i].type = "NOTE_ON" /\ events'[i].chordId = chord.name

\* C17: over every sequence of pointer down, up, cancel and leave events a
\* NOTE_OFF for pad X is emitted only while a NOTE_ON for X is not yet
\* followed by a NOTE_OFF, and a NOTE_ON for X only when the NOTE_ON before
\* it has had its NOTE_OFF.
C17_NoteOffMatchesNoteOn ==
  [][\A chord \in Pads :
       /\ EmitsNoteOff(chord) => noteOpen[chord.name]
       /\ EmitsNoteOn(chord) => ~noteOpen[chord.name]]_vars

----------------------------------------------------------------------------
(* Properties of a chord voice (checked under SpecVoice).                  *)

\* C20: calling stop() again on a voice throws nothing, and from the first
\* stop() on no ramp of the gain is scheduled to a value above the one
\* before it, the gain never rises, and while the oscillators play their
\* stop time lies after the end of the last ramp.
C20_StopTwiceNeverRampsUp ==
  /\ [](/\ ~voiceRaised
        /\ stopTimes # <<>> =>
             /\ \A i \in 2..Len(gainEvents) :
                  (gainEvents[i].kind # "set" /\ gainEvents[i].time > stopTimes[1])
                    => gainEvents[i].value <= gainEvents[i - 1].value
             /\ ~oscEnded =>
                  \A s \in oscStopAt : \A i \in DOMAIN gainEvents :
                    gainEvents[i].time < s)
  /\ [][stopTimes # <<>> => gainNow' <= gainNow]_vars

\* stop() during the attack, stop() again later, and the gain has fallen
C20_Witness ==
  /\ Len(stopTimes) = 2
  /\ stopTimes[1] = VoiceStep
  /\ stopTimes[2] > stopTimes[1]
  /\ voiceTime > stopTimes[2]
  /\ gainNow < GainPeak \div 2
  /\ ~oscEnded

----------------------------------------------------------------------------
(* Properties of the hardware pads (checked under SpecPads).               *)

\* no pad other than the one of chord has its target or base colour changed
OtherPadsKept(chord) ==
  \A p \in PadIds \ {PadId(chord)} :
    padTarget'[p] = padTarget[p] /\ padBase'[p] = padBase[p]

\* C21: a press of pad X (NOTE_ON with chordId X) leaves the target of X's
\* pad mesh at 1, a release of X (NOTE_OFF with X's first note, no chordId)
\* leaves it at 0 with the base colour back at the chord colour, and neither
\* changes the target or base colour of another pad.
C21_PadFollowsPressAndRelease ==
  [][\A chord \in Pads :
       /\ EmitsNoteOn(chord) =>
            padTarget'[PadId(chord)] = 1 /\ OtherPadsKept(chord)
       /\ EmitsNoteOff(chord) =>
            /\ padTarget'[PadId(chord)] = 0
            /\ padBase'[PadId(chord)] = BaseColor
            /\ OtherPadsKept(chord)]_vars

----------------------------------------------------------------------------
(* Properties of the scheduler's timing (checked under Spec).              *)

\* C22: every step a scheduleBeat pass hands to the drum generators has its
\* time inside the lookahead window of that moment, clock <= time < clock +
\* 0.15 s, however late the timer callback runs.
C22_StepsInsideLookahead ==
  \A i \in DOMAIN scheduled :
    clock <= scheduled[i].time /\ scheduled[i].time < clock + ScheduleAhead

----------------------------------------------------------------------------
(* Properties of the sequencer's run (checked under SpecRun).              *)

\* the number, counted from 0 since the start, of entry i of the last pass
StepNumber(i) == stepsDone - Len(scheduled) + i - 1

\* C23: with the tempo constant during a run, the k-th step handed to the
\* drum generators since startBeat has pattern index k mod 16 and time
\* T0 + 0.05 s + k * stepDur, T0 the audio clock at startBeat, whenever the
\* timer callbacks run: no step is left out or handed over twice, and every
\* start begins at step 0.
C23_StepTimesFromAudioClock ==
  \A i \in DOMAIN scheduled :
    /\ scheduled[i].step = StepNumber(i) % 16
    /\ scheduled[i].time = startedAt + StartOffset + StepNumber(i) * StepDur(bpm)

\* a second run, started later and at another tempo than the first, whose
\* late callback hands over two steps at once, the later one past the end
\* of the first bar
C23_Witness ==
  /\ startedAt > 0
  /\ bpm = 160
  /\ Len(scheduled) = 2
  /\ stepsDone > 16
  /\ lastOp = "timer"

----------------------------------------------------------------------------
(* Properties of App's teardown (checked under SpecUnmount).               *)

\* C25: once App is unmounted no scheduler timer is pending, so no
\* scheduleBeat pass runs and no drum step is scheduled after the unmount.
C25_UnmountCancelsTimer ==
  ~appMounted => (timers = {} /\ lastOp # "timer" /\ scheduled = <<>>)

----------------------------------------------------------------------------
(* Properties of handleChordUp's frame (checked under SpecPointer).        *)

\* C29: handleChordUp for pad X, run while the current chord is not X (it is
\* another pad's, or there is none), leaves currentChordVoice and
\* currentChordName as they are and stops no voice.
C29_ChordUpOfOtherPadKeepsVoice ==
  [][\A chord \in Pads :
       (lastOp' = "handleChordUp" /\ EmitsNoteOff(chord)
          /\ currentChordName # chord.name)
         => /\ currentChordVoice' = currentChordVoice
            /\ currentChordName' = currentChordName
            /\ voices' = voices]_vars

----------------------------------------------------------------------------
(* Properties of the rain (checked under SpecRain).                        *)

\* the step is a frame that adds a rain impact
RainAdded ==
  impactCount' = impactCount + 1 /\ impacts'[1].from = "rain"

\* C28: a frame adds a rain impact only if groove + sparkle + 0.4 * energy >
\* 0.9, more than 420 ms have passed since the rain impact before it, and a
\* NOTE_ON was received less than 2400 ms before the frame; without any
\* NOTE_ON there is no rain impact.
C28_RainOnlyAfterFreshNote ==
  [][RainAdded =>
       /\ 10 * (uGroove + uSparkle) + 4 * energy' > 90000
       /\ lastTime' - lastRain > 420
       /\ noteSeen
       /\ lastTime' - lastNoteAt < 2400]_vars

----------------------------------------------------------------------------
(* Properties of the palette (checked under SpecPalette).                  *)

\* C24: from one frame to the next the base colour drawn (uColorA) moves, in
\* every channel, by at most the frame's linear step, 0.6 * elapsed seconds
\* of the way from the blend's start colour to its target (one unit of
\* 0.0001 is allowed for rounding), whatever events arrived in between.
C24_PaletteNeverSnaps ==
  [][frameDelta' > 0 =>
       \A i \in 1..3 :
         Abs(uColorA'[i] - uColorA[i]) * 10000
           <= frameDelta' * 6 * Abs(targetPalette[i] - paletteA[i]) + 10000]_vars

----------------------------------------------------------------------------
(* Properties of the quality state (checked under SpecQuality).            *)

\* C27: after any interleaving of DENSITY_CHANGE events and quality actions,
\* floor(0.3 * maxCount) <= activeCount <= maxCount, 1 <= dprMax <= 1.6, and
\* the draw range of the geometry is activeCount.
C27_QualityWithinBounds ==
  /\ (maxCount * 30) \div 100 <= activeCount
  /\ activeCount <= maxCount
  /\ 20 <= dprMax
  /\ dprMax <= 32
  /\ drawRange = activeCount

\* the count at its floor of 0.35 maxCount and the cap at 1 after decreases,
\* on the desktop grid
C27_Witness ==
  /\ maxCount = 204 * 204
  /\ activeCount = (maxCount * 35) \div 100
  /\ dprMax = 20

----------------------------------------------------------------------------
(* Properties of the pad meshes (checked under SpecMesh).                  *)

----------------------------------------------------------------------------
(* Properties of the reactors' teardown (checked under SpecTeardown).      *)

\* C26: when a reactor is torn down, its handler is unsubscribed and its
\* last requested frame is cancelled by the time the renderer, materials
\* and geometry are disposed, and afterwards none of its frame callbacks
\* and none of its handler calls runs.
C26_TeardownCancelsBeforeDispose ==
  \A r \in Handlers :
    released[r] =>
      /\ disposeSaw[r] = NotDisposed
      /\ rafPending[r] = {}
      /\ ~Subscribed(r)
      /\ ~ranReleased[r]

\* the particle field torn down after frames of its loop and with impacts
\* made, the pads still running and the bus still delivering to them
C26_Witness ==
  /\ released["sea"]
  /\ ~released["pads"]
  /\ rafHandle["sea"] # 1
  /\ impactCount > 0
  /\ calls["pads"] > 0
  /\ calls["sea"] = 0
  /\ padFrames > 0

====
